---- MODULE Spec2Model ----
(***************************************************************************)
(* Model of the translation dispatch engine of zotero-arxiv-reader:        *)
(*   - translateHtmlAttachment (src/modules/htmlTranslator.ts): the serial *)
(*     loop and the parallel workers over the shared queue;                *)
(*   - translateTextWithProvider / waitForRateLimit                        *)
(*     (src/modules/translationService.ts): the retry loop of one send and *)
(*     the per-provider sliding-window rate limiter.                       *)
(* JavaScript runs the code between two awaits without interruption, so    *)
(* every action below is one such synchronous segment.                     *)
(***************************************************************************)
EXTENDS Integers, Sequences, FiniteSets, TLC

\* ---------------------------------------------------------------- bounds
\* number of translatable paragraphs (tasks) of the batch
NumUnits == 3
\* the clock advances in steps of TickMs, MaxTicks times at most
MaxTicks == 4

\* ------------------------------------------------------------ constants
\* translationService.ts:92  const windowMs = 60_000
windowMs == 60000
\* translationService.ts:385 await sleep(60_000)
RetryDelayMs == 60000

\* granularity of the clock: half a rate-limit window
TickMs == windowMs \div 2

Units == 1..NumUnits
NoTask == 0
MaxNow == MaxTicks * TickMs

\* provider ids a preference string can name; parseProviders keeps every
\* entry with id, name and apiBaseUrl, equal ids included
ProviderIds == {"p1", "p2"}
\* ids are only names: the first provider of the list is called p1
FirstId == "p1"
\* rpm of a provider: 0 is "unlimited"
RpmChoices == {0, 1}
\* Number(provider.rpm) can also be negative or infinite (a preference of
\* "-1" or 1e999). The infinities are written as integers beyond every
\* bucket length, so that they compare with a length as in JavaScript.
PosInfinity == 1000000000
NegInfinity == 0 - PosInfinity
\* NaN: normalizeProvider replaces it by 0 (rpm: provider.rpm || 0), so no
\* provider of a batch has it; used only as an argument of waitForRateLimit
NaNRpm == PosInfinity + 1
\* translationService.ts:89 Number.isFinite(rpm)
IsFinite(x) == x \notin {PosInfinity, NegInfinity, NaNRpm}
\* the values of rpm, other than 0, that are not a positive finite number
OtherUnlimitedRpm == {NegInfinity, -1, PosInfinity}
\* getParallelProviders returns one provider (serial) or several (parallel)
ProviderCounts == {1, 2}

\* error messages (the source strings are Chinese; named here in ASCII)
\* translationService.ts:181
ConfigErrorMsg == "translationApiKey not configured"
\* translationService.ts:389-392
TransportErrorMsg == "HTTP 500: request failed"
\* translationService.ts:258
EmptyContentMsg == "empty content in response"
\* htmlTranslator.ts:219
AllProvidersFailedMsg == "remaining units incomplete, all providers failed"
\* htmlTranslator.ts:228
NoContentMsg == "no translation produced"

\* what the provider answers to one HTTP request
Responses == {"ok", "rateLimited", "httpError", "emptyContent"}

VARIABLES
  prefs,                     \* the preferences the provider list comes from
  providers,                 \* getParallelProviders(): sequence of providers
  reassignOnFailure,         \* pref translationParallelReassignOnFailure
  queue,                     \* parallel mode: tasks.slice()
  serialPos,                 \* serial mode: index of the task of the for loop
  aborted,                   \* parallel mode: let aborted
  pc,                        \* position of each worker
  task,                      \* the task a worker holds (const task)
  wakeAt,                    \* when the sleep a worker awaits may end
  providerProgress,          \* ProviderProgress[]
  translatedCount,
  errorReason,
  result,                    \* TranslateResult, status "none" while running
  recentRequestsByProvider,  \* id -> timestamps of the rate limiter
  now,                       \* Date.now()
  insertCount,               \* translation blocks inserted after a paragraph
  inserted,                  \* the translation inserted after a paragraph
  callbackCount,             \* calls of onTranslated
  attemptLog,                \* history: workers that were sent each unit
  failedUnits,               \* history: units whose failed attempt was dropped
  errorLog,                  \* history: fatal error messages in order
  attemptNo,                 \* history: requests sent by the last call
  acquireNo,                 \* history: waitForRateLimit calls it completed
  rateLimitedAt,             \* history: time of the call's last rate-limit answer
  requestSentAt,             \* history: time the request in flight was sent
  logs,                      \* state.logs of the progress dialog
  appended,                  \* history: the messages appended since the start
  doc,                       \* the elements of the attachment's body
  lastTasks,                 \* history: the paragraphs the last run selected
  lastInserted,              \* history: the paragraphs the last run translated
  runs,                      \* history: the runs made on the attachment
  itemMenusRegistered,       \* menus.ts:10
  toolsMenusRegistered,      \* menus.ts:11
  menus,                     \* the menus the toolkit holds
  events                     \* history: the window events so far

\* the progress dialog, the attachment and the main window
dialogVars == <<logs, appended>>
docVars == <<doc, lastTasks, lastInserted, runs>>
menuVars == <<itemMenusRegistered, toolsMenusRegistered, menus, events>>
otherVars == <<dialogVars, docVars, menuVars>>

batchVars == <<prefs, inserted, providers, reassignOnFailure, queue, serialPos, aborted, pc, task,
          wakeAt, providerProgress, translatedCount, errorReason, result,
          recentRequestsByProvider, now, insertCount, callbackCount,
          attemptLog, failedUnits, errorLog, attemptNo, acquireNo,
          rateLimitedAt, requestSentAt>>

vars == <<batchVars, otherVars>>

\* no message logged, no attachment read, no window loaded
OtherInit ==
  /\ logs = <<>>
  /\ appended = <<>>
  /\ doc = <<>>
  /\ lastTasks = {}
  /\ lastInserted = {}
  /\ runs = 0
  /\ itemMenusRegistered = FALSE
  /\ toolsMenusRegistered = FALSE
  /\ menus = {}
  /\ events = <<>>

Workers == 1..Len(providers)
Serial == Len(providers) <= 1
Running == result.status = "none"

\* ------------------------------------------------------- rate limiter
RECURSIVE DropExpired(_, _)
\* translationService.ts:93-95
DropExpired(bucket, t) ==
  IF Len(bucket) > 0 /\ t - bucket[1] >= windowMs
  THEN DropExpired(Tail(bucket), t)
  ELSE bucket

\* mutant: without the test of line 89
waitForRateLimit_NoUnlimitedTest(rpm, bucket, t) ==
  LET recent == DropExpired(bucket, t)
      waitMs == IF Len(recent) > 0 /\ Len(recent) >= rpm
                THEN windowMs - (t - recent[1]) ELSE 0
  IN IF waitMs > 0
     THEN [bucket |-> recent, waitMs |-> waitMs]
     ELSE [bucket |-> Append(recent, t), waitMs |-> 0]

\* mutant: the timestamp is recorded when the call is made, before the sleep
waitForRateLimit_RecordsAtCall(rpm, bucket, t) ==
  IF ~IsFinite(rpm) \/ rpm <= 0 THEN [bucket |-> bucket, waitMs |-> 0]
  ELSE LET recent == DropExpired(bucket, t)
           waitMs == IF Len(recent) >= rpm
                     THEN windowMs - (t - recent[1]) ELSE 0
       IN [bucket |-> Append(recent, t),
           waitMs |-> IF waitMs > 0 THEN waitMs ELSE 0]

\* translationService.ts:88-102, up to the first await: the bucket after the
\* call, and the time to sleep (0: the timestamp has been pushed already,
\* or rpm is not positive and nothing is recorded)
waitForRateLimit(rpm, bucket, t) ==
  IF ~IsFinite(rpm) \/ rpm <= 0 THEN [bucket |-> bucket, waitMs |-> 0]
  ELSE LET recent == DropExpired(bucket, t)
           waitMs == IF Len(recent) >= rpm
                     THEN windowMs - (t - recent[1]) ELSE 0
       IN IF waitMs > 0
          THEN [bucket |-> recent, waitMs |-> waitMs]
          ELSE [bucket |-> Append(recent, t), waitMs |-> 0]

\* -------------------------------------------------- result computation
\* mutant: a count above 0 is reported as translated whatever the reason
ComputeResult_IgnoresReason(count, reason) ==
  IF count = 0 /\ reason # "" THEN
    [status |-> "failed", count |-> 0, reason |-> reason]
  ELSE IF count = 0 THEN
    [status |-> "skipped", count |-> 0, reason |-> NoContentMsg]
  ELSE [status |-> "translated", count |-> count, reason |-> ""]

\* mutant: the test for "nothing translated" comes before the test for an
\* error
ComputeResult_SkippedFirst(count, reason) ==
  IF count = 0 THEN
    [status |-> "skipped", count |-> 0, reason |-> NoContentMsg]
  ELSE IF reason # "" THEN
    [status |-> "partial", count |-> count, reason |-> reason]
  ELSE [status |-> "translated", count |-> count, reason |-> ""]

\* htmlTranslator.ts:224-242
ComputeResult(count, reason) ==
  IF count = 0 /\ reason # "" THEN
    [status |-> "failed", count |-> 0, reason |-> reason]
  ELSE IF count = 0 THEN
    [status |-> "skipped", count |-> 0, reason |-> NoContentMsg]
  ELSE IF reason # "" THEN
    [status |-> "partial", count |-> count, reason |-> reason]
  ELSE [status |-> "translated", count |-> count, reason |-> ""]

NoResult == [status |-> "none", count |-> 0, reason |-> ""]

\* JavaScript values of the fields of a response: a value with its type
Undefined == [type |-> "undefined", str |-> ""]
Str(text) == [type |-> "string", str |-> text]
Num == [type |-> "number", str |-> "5"]
\* value === undefined || value === null, the test of ??
Nullish(v) == v.type = "undefined"
\* the test of !value: undefined and the empty string are falsy, 5 is not
Truthy(v) == v.type # "undefined" /\ ~(v.type = "string" /\ v.str = "")

\* ------------------------------------------------ provider resolution
\* name and apiBaseUrl of a complete entry of the provider list
ProviderName == "OpenAI"
BaseUrl == "https://api.openai.com/v1"
\* ids as they stand in the raw list: with a blank to trim, or empty
RawIds == {"p1", " p1", "p2", ""}
\* translationService.ts:57 String(provider.id ?? "").trim()
Trim(str) == IF str = " p1" THEN "p1" ELSE str

\* translationService.ts:49-69
parseProviders(raw) ==
  LET parsed == [i \in DOMAIN raw |->
                   [id |-> Trim(raw[i].id), name |-> raw[i].name,
                    apiBaseUrl |-> raw[i].apiBaseUrl, rpm |-> raw[i].rpm,
                    apiKey |-> raw[i].apiKey]]
      Usable(p) == p.id # "" /\ p.name # "" /\ p.apiBaseUrl # ""
  IN SelectSeq(parsed, Usable)

\* translationService.ts:139-160, with the legacy preferences at their
\* defaults (no key, the default URL)
LegacyProvider ==
  [id |-> "legacy", name |-> "Legacy", apiBaseUrl |-> BaseUrl,
   rpm |-> 2000, apiKey |-> FALSE]

\* translationService.ts:162-167
getAllProviders(pr) ==
  LET ps == parseProviders(pr.translationProviders)
  IN IF Len(ps) > 0 THEN ps ELSE <<LegacyProvider>>

\* Array.prototype.find with the test provider.id === id: the first
\* provider of ps with that id; FALSE stands for undefined
FindById(ps, id) ==
  LET hits == {i \in DOMAIN ps : ps[i].id = id}
  IN IF hits = {} THEN FALSE
     ELSE ps[CHOOSE i \in hits : \A j \in hits : i <= j]

\* mutant: the fallback is the last registered provider
resolveSelectedProvider_FallbackLast(pr) ==
  LET ps == getAllProviders(pr)
      hits == {i \in DOMAIN ps : ps[i].id = pr.translationProviderSelection}
  IN IF hits = {} THEN ps[Len(ps)]
     ELSE FindById(ps, pr.translationProviderSelection)

\* translationService.ts:169-175
resolveSelectedProvider(pr) ==
  LET ps == getAllProviders(pr)
      hits == {i \in DOMAIN ps : ps[i].id = pr.translationProviderSelection}
  IN IF hits = {} THEN ps[1]
     ELSE FindById(ps, pr.translationProviderSelection)

\* translationService.ts:128-131
parseSelections(list) ==
  LET NonEmpty(str) == str # "" IN SelectSeq(list, NonEmpty)

\* mutant: the selected providers are returned even when there is none
getParallelProviders_SelectedOnly(pr) ==
  LET ps == getAllProviders(pr)
      selectedIds == parseSelections(pr.translationParallelProviders)
      Included(p) == \E i \in DOMAIN selectedIds : selectedIds[i] = p.id
  IN IF ~pr.translationParallelEnabled THEN <<resolveSelectedProvider(pr)>>
     ELSE SelectSeq(ps, Included)

\* translationService.ts:195-211
getParallelProviders(pr) ==
  LET ps == getAllProviders(pr)
      selectedIds == parseSelections(pr.translationParallelProviders)
      Included(p) == \E i \in DOMAIN selectedIds : selectedIds[i] = p.id
      selected == SelectSeq(ps, Included)
  IN IF ~pr.translationParallelEnabled THEN <<resolveSelectedProvider(pr)>>
     ELSE IF Len(selectedIds) = 0 THEN <<resolveSelectedProvider(pr)>>
     ELSE IF Len(selected) > 0 THEN selected
     ELSE <<resolveSelectedProvider(pr)>>

\* ------------------------------------------------------------- Init
ProviderRecords ==
  [id : ProviderIds, name : {ProviderName}, apiBaseUrl : {BaseUrl},
   rpm : RpmChoices, apiKey : BOOLEAN]
\* the provider of a serial batch: its rpm is of any kind
SerialProviderRecords ==
  [id : ProviderIds, name : {ProviderName}, apiBaseUrl : {BaseUrl},
   rpm : RpmChoices \cup OtherUnlimitedRpm, apiKey : BOOLEAN]

\* preferences under which the registered providers regs all take part:
\* the first is the selected one, and with several of them the parallel
\* mode is on and names them all
PrefsFor(regs) ==
  [translationProviders |-> regs,
   translationProviderSelection |-> regs[1].id,
   translationParallelEnabled |-> Len(regs) > 1,
   translationParallelProviders |-> [i \in DOMAIN regs |-> regs[i].id]]

Init ==
  /\ \E n \in ProviderCounts :
       \E regs \in [1..n -> IF n = 1 THEN SerialProviderRecords
                             ELSE ProviderRecords] :
         /\ regs[1].id = FirstId
         /\ prefs = PrefsFor(regs)
  /\ providers = getParallelProviders(prefs)
  /\ reassignOnFailure \in BOOLEAN
  /\ queue = IF Serial THEN <<>> ELSE [i \in Units |-> i]
  /\ serialPos = 0
  /\ aborted = FALSE
  /\ pc = [w \in Workers |-> "start"]
  /\ task = [w \in Workers |-> NoTask]
  /\ wakeAt = [w \in Workers |-> 0]
  /\ providerProgress =
       [w \in Workers |-> [total |-> 0, done |-> 0, failed |-> 0, error |-> ""]]
  /\ translatedCount = 0
  /\ errorReason = ""
  /\ result = NoResult
  /\ recentRequestsByProvider = [i \in ProviderIds |-> <<>>]
  /\ now = 0
  /\ insertCount = [u \in Units |-> 0]
  /\ inserted = [u \in Units |-> Undefined]
  /\ OtherInit
  /\ callbackCount = 0
  /\ attemptLog = [u \in Units |-> <<>>]
  /\ failedUnits = {}
  /\ errorLog = <<>>
  /\ attemptNo = [w \in Workers |-> 0]
  /\ acquireNo = [w \in Workers |-> 0]
  /\ rateLimitedAt = [w \in Workers |-> -1]
  /\ requestSentAt = [w \in Workers |-> -1]

\* ------------------------------------------------ translation client
ProviderOf(w) == providers[w]

\* mutant: the retry does not wait
RetryWakeTime_NoDelay(t) == t

\* translationService.ts:385: the time the retry sleep may end
RetryWakeTime(t) == t + RetryDelayMs

\* mutant: every provider id leads to the bucket of the first id
BucketKey_Shared(id) == FirstId

\* translationService.ts:79-86 getRequestBucket: the bucket of a provider is
\* the entry of the map under its id
BucketKey(id) == id

\* translationService.ts:358-360, the top of the retry loop up to its first
\* await: waitForRateLimit either records the request and the request is
\* sent, or it sleeps. n = requests this call has sent so far.
SendOrWait(w, n) ==
  LET p == ProviderOf(w)
      k == BucketKey(p.id)
      r == waitForRateLimit(p.rpm, recentRequestsByProvider[k], now)
  IN /\ recentRequestsByProvider' =
          [recentRequestsByProvider EXCEPT ![k] = r.bucket]
     /\ IF r.waitMs > 0
        THEN /\ pc' = [pc EXCEPT ![w] = "ratewait"]
             /\ wakeAt' = [wakeAt EXCEPT ![w] = now + r.waitMs]
             /\ attemptNo' = [attemptNo EXCEPT ![w] = n]
             /\ acquireNo' = [acquireNo EXCEPT ![w] = IF n = 0 THEN 0 ELSE @]
             /\ requestSentAt' = [requestSentAt EXCEPT ![w] = -1]
        ELSE /\ pc' = [pc EXCEPT ![w] = "sending"]
             /\ wakeAt' = [wakeAt EXCEPT ![w] = 0]
             /\ attemptNo' = [attemptNo EXCEPT ![w] = n + 1]
             /\ acquireNo' =
                  [acquireNo EXCEPT ![w] = (IF n = 0 THEN 0 ELSE @) + 1]
             /\ requestSentAt' = [requestSentAt EXCEPT ![w] = now]

\* mutant: the API key is not tested before the request
BeginCall_NoKeyTest(w, t) ==
  /\ attemptLog' = [attemptLog EXCEPT ![t] = Append(@, w)]
  /\ rateLimitedAt' = [rateLimitedAt EXCEPT ![w] = -1]
  /\ SendOrWait(w, 0)

\* translationService.ts:336-360: translateTextWithProvider(task.text,
\* provider) up to its first await. normalizeProvider throws without an API
\* key (177-182): the promise is rejected and the caller's catch runs later.
BeginCall(w, t) ==
  /\ attemptLog' = [attemptLog EXCEPT ![t] = Append(@, w)]
  /\ rateLimitedAt' = [rateLimitedAt EXCEPT ![w] = -1]
  /\ IF ~ProviderOf(w).apiKey
     THEN /\ pc' = [pc EXCEPT ![w] = "rejected"]
          /\ attemptNo' = [attemptNo EXCEPT ![w] = 0]
          /\ acquireNo' = [acquireNo EXCEPT ![w] = 0]
          /\ requestSentAt' = [requestSentAt EXCEPT ![w] = -1]
          /\ UNCHANGED <<wakeAt, recentRequestsByProvider>>
     ELSE SendOrWait(w, 0)

\* the worker's (or the serial loop's) function returns
EndCalls(w) ==
  /\ pc' = [pc EXCEPT ![w] = "returned"]
  /\ rateLimitedAt' = [rateLimitedAt EXCEPT ![w] = -1]
  /\ requestSentAt' = [requestSentAt EXCEPT ![w] = -1]
  /\ UNCHANGED <<wakeAt, recentRequestsByProvider, attemptLog, attemptNo,
                 acquireNo>>

\* ---------------------------------------------------------- dispatcher
AllStarted == \A w \in Workers : pc[w] # "start"

\* a rejected promise is handled in a microtask, before any timer or
\* response, which are tasks of the event loop
NoPendingRejection == \A w \in Workers : pc[w] # "rejected"
\* a timer or a response is handled once the synchronous start of the batch
\* is over and no microtask is pending
TaskMayRun == AllStarted /\ NoPendingRejection

\* mutant: the batch goes on as soon as one worker has returned
\* mutant: the batch waits for workers that never failed only
AllWorkersSettled_NoneFailed ==
  \A w \in Workers : pc[w] = "returned" /\ providerProgress[w].failed = 0

AllWorkersSettled_AnyOne == \E w \in Workers : pc[w] = "returned"

\* htmlTranslator.ts:217: await Promise.all(workers); no worker rejects,
\* each catches the errors of its calls
AllWorkersSettled == \A w \in Workers : pc[w] = "returned"

\* mutant: the task is read but not removed from the queue
QueueAfterShift_Peek(q) == q

\* htmlTranslator.ts:182: the queue after queue.shift()
QueueAfterShift(q) == Tail(q)

\* mutant: the task taken is not the one removed from the queue
TaskAfterShift_Second(q) == IF Len(q) > 1 THEN q[2] ELSE q[1]

\* htmlTranslator.ts:182: the task queue.shift() returns
TaskAfterShift(q) == Head(q)

\* mutant: the worker does not count the task it pulls
WorkerIteration_TotalNotCounted(w, pp) ==
  IF aborted \/ queue = <<>>
  THEN /\ EndCalls(w)
       /\ task' = [task EXCEPT ![w] = NoTask]
       /\ providerProgress' = pp
       /\ queue' = queue
  ELSE /\ queue' = QueueAfterShift(queue)
       /\ task' = [task EXCEPT ![w] = TaskAfterShift(queue)]
       /\ providerProgress' = pp
       /\ BeginCall(w, TaskAfterShift(queue))

\* mutant: the worker does not look at the aborted flag
WorkerIteration_IgnoresAborted(w, pp) ==
  IF queue = <<>>
  THEN /\ EndCalls(w)
       /\ task' = [task EXCEPT ![w] = NoTask]
       /\ providerProgress' = pp
       /\ queue' = queue
  ELSE /\ queue' = QueueAfterShift(queue)
       /\ task' = [task EXCEPT ![w] = TaskAfterShift(queue)]
       /\ providerProgress' = [pp EXCEPT ![w].total = @ + 1]
       /\ BeginCall(w, TaskAfterShift(queue))

\* htmlTranslator.ts:180-190: one pass through the top of the worker loop,
\* pp = the progress records as the segment has left them so far
WorkerIteration(w, pp) ==
  IF aborted \/ queue = <<>>
  THEN /\ EndCalls(w)
       /\ task' = [task EXCEPT ![w] = NoTask]
       /\ providerProgress' = pp
       /\ queue' = queue
  ELSE /\ queue' = QueueAfterShift(queue)
       /\ task' = [task EXCEPT ![w] = TaskAfterShift(queue)]
       /\ providerProgress' = [pp EXCEPT ![w].total = @ + 1]
       /\ BeginCall(w, TaskAfterShift(queue))

\* htmlTranslator.ts:151-156 and 224-242: the for loop takes task number pos,
\* or the loop is over and the result is computed
SerialIteration(pos, pp, count, reason) ==
  /\ serialPos' = pos
  /\ providerProgress' = pp
  /\ IF pos > NumUnits
     THEN /\ EndCalls(1)
          /\ task' = [task EXCEPT ![1] = NoTask]
          /\ result' = ComputeResult(count, reason)
     ELSE /\ task' = [task EXCEPT ![1] = pos]
          /\ result' = result
          /\ BeginCall(1, pos)

\* mutant: every failure overwrites the reason
NextErrorReason_Overwrite(current, reason) == reason

\* htmlTranslator.ts:201-203
NextErrorReason(current, reason) == IF current = "" THEN reason ELSE current

\* mutant: the failed task is not pushed back
QueueAfterFailure_Dropped(q, t) == q

\* mutant: the failed task is pushed back twice
QueueAfterFailure_Twice(q, t) ==
  IF reassignOnFailure THEN Append(Append(q, t), t) ELSE q

\* htmlTranslator.ts:207-210: the queue after worker's task t has failed
QueueAfterFailure(q, t) == IF reassignOnFailure THEN Append(q, t) ELSE q

\* mutant: a failure sets the aborted flag whatever the policy
AbortedAfterFailure_Always == TRUE

\* htmlTranslator.ts:211: the aborted flag after a failure
AbortedAfterFailure == IF reassignOnFailure THEN aborted ELSE TRUE

\* htmlTranslator.ts:218-220
ReasonAfterJoin(reason, q) ==
  IF reassignOnFailure /\ Len(q) > 0 /\ reason = ""
  THEN AllProvidersFailedMsg ELSE reason

\* htmlTranslator.ts:178-190: providers.map starts the workers one after the
\* other, each running to its first await
StartWorker(w) ==
  /\ ~Serial /\ Running
  /\ pc[w] = "start"
  /\ \A v \in Workers : v < w => pc[v] # "start"
  /\ WorkerIteration(w, providerProgress)
  /\ UNCHANGED <<otherVars, prefs, inserted, providers, reassignOnFailure, serialPos, aborted,
                 translatedCount, errorReason, result, now, insertCount,
                 callbackCount, failedUnits, errorLog>>

\* htmlTranslator.ts:145-156
StartSerial ==
  /\ Serial /\ Running
  /\ pc[1] = "start"
  /\ SerialIteration(1, [providerProgress EXCEPT ![1].total = NumUnits],
                     translatedCount, errorReason)
  /\ UNCHANGED <<otherVars, prefs, inserted, providers, reassignOnFailure, queue, aborted,
                 translatedCount, errorReason, now, insertCount,
                 callbackCount, failedUnits, errorLog>>

\* htmlTranslator.ts:157-164 (serial) and 191-196 (parallel): the call
\* returned a translation; the loop goes on in the same segment
\* mutant: the done counter is left as it is
ProgressAfterSuccess_DoneNotCounted(pp, w) == pp

\* htmlTranslator.ts:160-163, 194-195: providerProgress[index].done += 1
ProgressAfterSuccess(pp, w) == [pp EXCEPT ![w].done = @ + 1]

OnSuccess(w) ==
  LET t == task[w]
      pp == ProgressAfterSuccess(providerProgress, w)
  IN /\ insertCount' = [insertCount EXCEPT ![t] = @ + 1]
     /\ translatedCount' = translatedCount + 1
     /\ callbackCount' = callbackCount + 1
     /\ IF Serial
        THEN /\ SerialIteration(serialPos + 1, pp, translatedCount + 1,
                                errorReason)
             /\ queue' = queue
        ELSE /\ WorkerIteration(w, pp)
             /\ UNCHANGED <<serialPos, result>>
     /\ UNCHANGED <<aborted, errorReason, failedUnits, errorLog>>

\* mutant: the failure is written to the first record, as in the serial
\* branch
ProgressAfterFailure_FirstRecord(pp, w, reason) ==
  [pp EXCEPT ![1].failed = @ + 1, ![1].error = reason]

\* htmlTranslator.ts:167-171 and 204-206: the records after worker w's call
\* has failed
ProgressAfterFailure(pp, w, reason) ==
  [pp EXCEPT ![w].failed = @ + 1, ![w].error = reason]

\* htmlTranslator.ts:165-173 (serial: break, then 224-242) and 197-213
\* (parallel): the call threw reason
OnFailure(w, reason) ==
  LET t == task[w]
      pp == ProgressAfterFailure(providerProgress, w, reason)
  IN /\ providerProgress' = pp
     /\ errorLog' = Append(errorLog, reason)
     /\ task' = [task EXCEPT ![w] = NoTask]
     /\ EndCalls(w)
     /\ IF Serial
        THEN /\ errorReason' = reason
             /\ result' = ComputeResult(translatedCount, reason)
             /\ failedUnits' = failedUnits \cup {t}
             /\ UNCHANGED <<queue, aborted>>
        ELSE /\ errorReason' = NextErrorReason(errorReason, reason)
             /\ queue' = QueueAfterFailure(queue, t)
             /\ aborted' = AbortedAfterFailure
             /\ failedUnits' = IF reassignOnFailure THEN failedUnits
                               ELSE failedUnits \cup {t}
             /\ result' = result
     /\ UNCHANGED <<serialPos, translatedCount, insertCount, callbackCount>>

\* mutant: the retry loop gives up after two requests
RetryLoopContinues_Capped(n) == n < 2

\* translationService.ts:357 and 384-387: while (true) ... continue: the
\* loop goes on whatever the number n of requests the call has sent
RetryLoopContinues(n) == TRUE

\* translationService.ts:360-393: the response to the request arrives.
\* "rateLimited" is a non-2xx response that isRateLimitError accepts; a
\* loop that ended there would reach the throw of lines 389-392.
\* ------------------------------------------------ the response
\* the responses tried, as Zotero.HTTP.request returns them
\* (translationService.ts:360-367)
\* a completion
OkResponse ==
  [status |-> 200, statusText |-> "",
   responseText |-> "{\"choices\":[{\"message\":{\"content\":\"bonjour\"}}]}"]
\* status 429, no body
RateLimitedResponse ==
  [status |-> 429, statusText |-> "",
   responseText |-> ""]
\* status 500, no body, no status text
HttpErrorResponse ==
  [status |-> 500, statusText |-> "",
   responseText |-> ""]
\* a completion with empty content
EmptyContentResponse ==
  [status |-> 200, statusText |-> "",
   responseText |-> "{\"choices\":[{\"message\":{\"content\":\"\"}}]}"]
\* error.message with the phrase in capitals
RateLimitMessage ==
  [status |-> 500, statusText |-> "",
   responseText |-> "{\"error\":{\"message\":\"Rate Limit exceeded\"}}"]
\* a body that is not JSON
TooManyText ==
  [status |-> 503, statusText |-> "",
   responseText |-> "Too many requests"]
\* two blanks between the words
TooManyWideText ==
  [status |-> 503, statusText |-> "",
   responseText |-> "too  many requests"]
\* error.message naming RPM
RpmMessage ==
  [status |-> 500, statusText |-> "",
   responseText |-> "{\"error\":{\"message\":\"quota: 3 RPM\"}}"]
\* JSON without error.message
RpmDetail ==
  [status |-> 500, statusText |-> "",
   responseText |-> "{\"detail\":\"rpm exceeded\"}"]
\* the words without a blank
RateLimitJoined ==
  [status |-> 500, statusText |-> "",
   responseText |-> "{\"error\":{\"message\":\"RateLimitExceeded\"}}"]
\* rpm in the body, not in error.message
RpmOutsideMessage ==
  [status |-> 500, statusText |-> "",
   responseText |-> "{\"error\":{\"message\":\"overloaded\",\"code\":\"rpm_limit\"}}"]
\* an error.message of another kind
InternalError ==
  [status |-> 500, statusText |-> "",
   responseText |-> "{\"error\":{\"message\":\"internal error\"}}"]
\* a body that is not JSON, a status text
NotFound ==
  [status |-> 404, statusText |-> "Not Found",
   responseText |-> "no such page"]
\* the first status above 2xx
Redirect ==
  [status |-> 300, statusText |-> "",
   responseText |-> ""]
\* no message.content, a text; the last 2xx status
OkText ==
  [status |-> 299, statusText |-> "",
   responseText |-> "{\"choices\":[{\"text\":\"salut\"}]}"]
\* 2xx, not JSON
OkNotJson ==
  [status |-> 200, statusText |-> "",
   responseText |-> "<html>"]
\* 2xx, no body
OkNoBody ==
  [status |-> 200, statusText |-> "",
   responseText |-> ""]
\* 2xx with error.message, no choices
OkErrorMessage ==
  [status |-> 200, statusText |-> "",
   responseText |-> "{\"error\":{\"message\":\"model not found\"}}"]
\* 2xx whose error.message names a rate limit
OkRateLimitMessage ==
  [status |-> 200, statusText |-> "",
   responseText |-> "{\"error\":{\"message\":\"rate limit reached\"}}"]
\* content is a number
OkNumber ==
  [status |-> 200, statusText |-> "",
   responseText |-> "{\"choices\":[{\"message\":{\"content\":5}}]}"]
\* empty content beside a text
OkEmptyThenText ==
  [status |-> 200, statusText |-> "",
   responseText |-> "{\"choices\":[{\"message\":{\"content\":\"\"},\"text\":\"salut\"}]}"]
\* no choice at all
OkNoChoices ==
  [status |-> 200, statusText |-> "",
   responseText |-> "{\"choices\":[]}"]
ResponseSamples ==
  {OkResponse,
   RateLimitedResponse,
   HttpErrorResponse,
   EmptyContentResponse,
   RateLimitMessage,
   TooManyText,
   TooManyWideText,
   RpmMessage,
   RpmDetail,
   RateLimitJoined,
   RpmOutsideMessage,
   InternalError,
   NotFound,
   Redirect,
   OkText,
   OkNotJson,
   OkNoBody,
   OkErrorMessage,
   OkRateLimitMessage,
   OkNumber,
   OkEmptyThenText,
   OkNoChoices}

\* JSON.parse of an empty text or of a text that is not JSON
NullData ==
  [isNull |-> TRUE, content |-> Undefined, text |-> Undefined,
   errorMessage |-> ""]
\* translationService.ts:370-375: JSON.parse of the texts above; null for an
\* empty text and for a text that is not JSON
JsonParse(text) ==
  CASE text = "{\"choices\":[{\"message\":{\"content\":\"bonjour\"}}]}" ->
         [isNull |-> FALSE, content |-> Str("bonjour"), text |-> Undefined,
          errorMessage |-> ""]
    [] text = "{\"choices\":[{\"message\":{\"content\":\"\"}}]}" ->
         [isNull |-> FALSE, content |-> Str(""), text |-> Undefined,
          errorMessage |-> ""]
    [] text = "{\"error\":{\"message\":\"Rate Limit exceeded\"}}" ->
         [isNull |-> FALSE, content |-> Undefined, text |-> Undefined,
          errorMessage |-> "Rate Limit exceeded"]
    [] text = "{\"error\":{\"message\":\"quota: 3 RPM\"}}" ->
         [isNull |-> FALSE, content |-> Undefined, text |-> Undefined,
          errorMessage |-> "quota: 3 RPM"]
    [] text = "{\"detail\":\"rpm exceeded\"}" ->
         [isNull |-> FALSE, content |-> Undefined, text |-> Undefined,
          errorMessage |-> ""]
    [] text = "{\"error\":{\"message\":\"RateLimitExceeded\"}}" ->
         [isNull |-> FALSE, content |-> Undefined, text |-> Undefined,
          errorMessage |-> "RateLimitExceeded"]
    [] text = "{\"error\":{\"message\":\"overloaded\",\"code\":\"rpm_limit\"}}" ->
         [isNull |-> FALSE, content |-> Undefined, text |-> Undefined,
          errorMessage |-> "overloaded"]
    [] text = "{\"error\":{\"message\":\"internal error\"}}" ->
         [isNull |-> FALSE, content |-> Undefined, text |-> Undefined,
          errorMessage |-> "internal error"]
    [] text = "{\"choices\":[{\"text\":\"salut\"}]}" ->
         [isNull |-> FALSE, content |-> Undefined, text |-> Str("salut"),
          errorMessage |-> ""]
    [] text = "{\"error\":{\"message\":\"model not found\"}}" ->
         [isNull |-> FALSE, content |-> Undefined, text |-> Undefined,
          errorMessage |-> "model not found"]
    [] text = "{\"error\":{\"message\":\"rate limit reached\"}}" ->
         [isNull |-> FALSE, content |-> Undefined, text |-> Undefined,
          errorMessage |-> "rate limit reached"]
    [] text = "{\"choices\":[{\"message\":{\"content\":5}}]}" ->
         [isNull |-> FALSE, content |-> Num, text |-> Undefined,
          errorMessage |-> ""]
    [] text = "{\"choices\":[{\"message\":{\"content\":\"\"},\"text\":\"salut\"}]}" ->
         [isNull |-> FALSE, content |-> Str(""), text |-> Str("salut"),
          errorMessage |-> ""]
    [] text = "{\"choices\":[]}" ->
         [isNull |-> FALSE, content |-> Undefined, text |-> Undefined,
          errorMessage |-> ""]
    [] OTHER -> NullData

\* the characters of a response text or of an error.message
Spell(str) ==
  CASE str = "{\"choices\":[{\"message\":{\"content\":\"bonjour\"}}]}" ->
         <<"{", "\"", "c", "h", "o", "i", "c", "e", "s", "\"", ":", "[", "{", "\"", "m", "e", "s", "s", "a", "g", "e", "\"", ":", "{", "\"", "c", "o", "n", "t", "e", "n", "t", "\"", ":", "\"", "b", "o", "n", "j", "o", "u", "r", "\"", "}", "}", "]", "}">>
    [] str = "" ->
         <<>>
    [] str = "{\"choices\":[{\"message\":{\"content\":\"\"}}]}" ->
         <<"{", "\"", "c", "h", "o", "i", "c", "e", "s", "\"", ":", "[", "{", "\"", "m", "e", "s", "s", "a", "g", "e", "\"", ":", "{", "\"", "c", "o", "n", "t", "e", "n", "t", "\"", ":", "\"", "\"", "}", "}", "]", "}">>
    [] str = "{\"error\":{\"message\":\"Rate Limit exceeded\"}}" ->
         <<"{", "\"", "e", "r", "r", "o", "r", "\"", ":", "{", "\"", "m", "e", "s", "s", "a", "g", "e", "\"", ":", "\"", "R", "a", "t", "e", " ", "L", "i", "m", "i", "t", " ", "e", "x", "c", "e", "e", "d", "e", "d", "\"", "}", "}">>
    [] str = "Rate Limit exceeded" ->
         <<"R", "a", "t", "e", " ", "L", "i", "m", "i", "t", " ", "e", "x", "c", "e", "e", "d", "e", "d">>
    [] str = "Too many requests" ->
         <<"T", "o", "o", " ", "m", "a", "n", "y", " ", "r", "e", "q", "u", "e", "s", "t", "s">>
    [] str = "too  many requests" ->
         <<"t", "o", "o", " ", " ", "m", "a", "n", "y", " ", "r", "e", "q", "u", "e", "s", "t", "s">>
    [] str = "{\"error\":{\"message\":\"quota: 3 RPM\"}}" ->
         <<"{", "\"", "e", "r", "r", "o", "r", "\"", ":", "{", "\"", "m", "e", "s", "s", "a", "g", "e", "\"", ":", "\"", "q", "u", "o", "t", "a", ":", " ", "3", " ", "R", "P", "M", "\"", "}", "}">>
    [] str = "quota: 3 RPM" ->
         <<"q", "u", "o", "t", "a", ":", " ", "3", " ", "R", "P", "M">>
    [] str = "{\"detail\":\"rpm exceeded\"}" ->
         <<"{", "\"", "d", "e", "t", "a", "i", "l", "\"", ":", "\"", "r", "p", "m", " ", "e", "x", "c", "e", "e", "d", "e", "d", "\"", "}">>
    [] str = "{\"error\":{\"message\":\"RateLimitExceeded\"}}" ->
         <<"{", "\"", "e", "r", "r", "o", "r", "\"", ":", "{", "\"", "m", "e", "s", "s", "a", "g", "e", "\"", ":", "\"", "R", "a", "t", "e", "L", "i", "m", "i", "t", "E", "x", "c", "e", "e", "d", "e", "d", "\"", "}", "}">>
    [] str = "RateLimitExceeded" ->
         <<"R", "a", "t", "e", "L", "i", "m", "i", "t", "E", "x", "c", "e", "e", "d", "e", "d">>
    [] str = "{\"error\":{\"message\":\"overloaded\",\"code\":\"rpm_limit\"}}" ->
         <<"{", "\"", "e", "r", "r", "o", "r", "\"", ":", "{", "\"", "m", "e", "s", "s", "a", "g", "e", "\"", ":", "\"", "o", "v", "e", "r", "l", "o", "a", "d", "e", "d", "\"", ",", "\"", "c", "o", "d", "e", "\"", ":", "\"", "r", "p", "m", "_", "l", "i", "m", "i", "t", "\"", "}", "}">>
    [] str = "overloaded" ->
         <<"o", "v", "e", "r", "l", "o", "a", "d", "e", "d">>
    [] str = "{\"error\":{\"message\":\"internal error\"}}" ->
         <<"{", "\"", "e", "r", "r", "o", "r", "\"", ":", "{", "\"", "m", "e", "s", "s", "a", "g", "e", "\"", ":", "\"", "i", "n", "t", "e", "r", "n", "a", "l", " ", "e", "r", "r", "o", "r", "\"", "}", "}">>
    [] str = "internal error" ->
         <<"i", "n", "t", "e", "r", "n", "a", "l", " ", "e", "r", "r", "o", "r">>
    [] str = "no such page" ->
         <<"n", "o", " ", "s", "u", "c", "h", " ", "p", "a", "g", "e">>
    [] str = "{\"choices\":[{\"text\":\"salut\"}]}" ->
         <<"{", "\"", "c", "h", "o", "i", "c", "e", "s", "\"", ":", "[", "{", "\"", "t", "e", "x", "t", "\"", ":", "\"", "s", "a", "l", "u", "t", "\"", "}", "]", "}">>
    [] str = "<html>" ->
         <<"<", "h", "t", "m", "l", ">">>
    [] str = "{\"error\":{\"message\":\"model not found\"}}" ->
         <<"{", "\"", "e", "r", "r", "o", "r", "\"", ":", "{", "\"", "m", "e", "s", "s", "a", "g", "e", "\"", ":", "\"", "m", "o", "d", "e", "l", " ", "n", "o", "t", " ", "f", "o", "u", "n", "d", "\"", "}", "}">>
    [] str = "model not found" ->
         <<"m", "o", "d", "e", "l", " ", "n", "o", "t", " ", "f", "o", "u", "n", "d">>
    [] str = "{\"error\":{\"message\":\"rate limit reached\"}}" ->
         <<"{", "\"", "e", "r", "r", "o", "r", "\"", ":", "{", "\"", "m", "e", "s", "s", "a", "g", "e", "\"", ":", "\"", "r", "a", "t", "e", " ", "l", "i", "m", "i", "t", " ", "r", "e", "a", "c", "h", "e", "d", "\"", "}", "}">>
    [] str = "rate limit reached" ->
         <<"r", "a", "t", "e", " ", "l", "i", "m", "i", "t", " ", "r", "e", "a", "c", "h", "e", "d">>
    [] str = "{\"choices\":[{\"message\":{\"content\":5}}]}" ->
         <<"{", "\"", "c", "h", "o", "i", "c", "e", "s", "\"", ":", "[", "{", "\"", "m", "e", "s", "s", "a", "g", "e", "\"", ":", "{", "\"", "c", "o", "n", "t", "e", "n", "t", "\"", ":", "5", "}", "}", "]", "}">>
    [] str = "{\"choices\":[{\"message\":{\"content\":\"\"},\"text\":\"salut\"}]}" ->
         <<"{", "\"", "c", "h", "o", "i", "c", "e", "s", "\"", ":", "[", "{", "\"", "m", "e", "s", "s", "a", "g", "e", "\"", ":", "{", "\"", "c", "o", "n", "t", "e", "n", "t", "\"", ":", "\"", "\"", "}", ",", "\"", "t", "e", "x", "t", "\"", ":", "\"", "s", "a", "l", "u", "t", "\"", "}", "]", "}">>
    [] str = "{\"choices\":[]}" ->
         <<"{", "\"", "c", "h", "o", "i", "c", "e", "s", "\"", ":", "[", "]", "}">>

\* translationService.ts:379
NoDataMsg == "empty response"
\* translationService.ts:389-391 `HTTP ${xhr.status}: ${xhr.statusText || ...}`
HttpErrorMsg(status, statusText) ==
  CASE status = 500 /\ statusText = "" -> TransportErrorMsg
    [] status = 300 /\ statusText = "" -> "HTTP 300: request failed"
    [] status = 503 /\ statusText = "" -> "HTTP 503: request failed"
    [] status = 404 /\ statusText = "Not Found" -> "HTTP 404: Not Found"

\* the flag i of the pattern: letters compare in lower case
UpperLetters ==
  <<"A", "B", "C", "D", "E", "F", "G", "H", "I", "J", "K", "L", "M",
    "N", "O", "P", "Q", "R", "S", "T", "U", "V", "W", "X", "Y", "Z">>
LowerLetters ==
  <<"a", "b", "c", "d", "e", "f", "g", "h", "i", "j", "k", "l", "m",
    "n", "o", "p", "q", "r", "s", "t", "u", "v", "w", "x", "y", "z">>
Lower(c) ==
  IF \E i \in DOMAIN UpperLetters : UpperLetters[i] = c
  THEN LowerLetters[CHOOSE i \in DOMAIN UpperLetters : UpperLetters[i] = c]
  ELSE c
\* the class \s
IsWs(c) == c \in {" ", "\t", "\n", "\r"}
\* the letters lit stand in s from position i on
LitAt(s, i, lit) ==
  /\ i + Len(lit) - 1 <= Len(s)
  /\ \A k \in DOMAIN lit : Lower(s[i + k - 1]) = lit[k]
\* the characters of s from position i to position j are all of class \s
AllWs(s, i, j) == \A k \in i..j : IsWs(s[k])

\* translationService.ts:273 /rate\s*limit|too\s+many\s+requests|rpm/i
RateLimitPattern(s) ==
  \/ \E i \in DOMAIN s :
       /\ LitAt(s, i, <<"r", "a", "t", "e">>)
       /\ \E j \in (i + 4)..Len(s) :
            AllWs(s, i + 4, j - 1) /\ LitAt(s, j, <<"l", "i", "m", "i", "t">>)
  \/ \E i \in DOMAIN s :
       /\ LitAt(s, i, <<"t", "o", "o">>)
       /\ \E j \in (i + 4)..Len(s) :
            /\ AllWs(s, i + 3, j - 1)
            /\ LitAt(s, j, <<"m", "a", "n", "y">>)
            /\ \E k \in (j + 5)..Len(s) :
                 /\ AllWs(s, j + 4, k - 1)
                 /\ LitAt(s, k, <<"r", "e", "q", "u", "e", "s", "t", "s">>)
  \/ \E i \in DOMAIN s : LitAt(s, i, <<"r", "p", "m">>)

\* mutant: only the status is a rate-limit signal
isRateLimitError_StatusOnly(status, data, responseText) == status = 429

\* translationService.ts:263-274
isRateLimitError(status, data, responseText) ==
  IF status = 429 THEN TRUE
  ELSE LET message == IF data.errorMessage # "" THEN data.errorMessage
                      ELSE responseText
       IN IF message = "" THEN FALSE
          ELSE RateLimitPattern(Spell(message))

\* what a call of a function ends in
Return(v) == [kind |-> "return", value |-> v, message |-> ""]
Throw(msg) == [kind |-> "throw", value |-> Undefined, message |-> msg]
Retry == [kind |-> "retry", value |-> Undefined, message |-> ""]

\* mutant: the content is returned whatever it is
extractResponseContent_NoContentTest(data) ==
  Return(IF ~Nullish(data.content) THEN data.content
         ELSE IF ~Nullish(data.text) THEN data.text
         ELSE Str(""))

\* translationService.ts:250-261
extractResponseContent(data) ==
  LET content == IF ~Nullish(data.content) THEN data.content
                 ELSE IF ~Nullish(data.text) THEN data.text
                 ELSE Str("")
  IN IF ~Truthy(content) \/ content.type # "string"
     THEN IF data.errorMessage # "" THEN Throw(data.errorMessage)
          ELSE Throw(EmptyContentMsg)
     ELSE Return(content)

\* mutant: the rate-limit test comes before the test of the status
ResponseOutcome_RateLimitTestFirst(xhr) ==
  LET responseText == xhr.responseText
      data == IF responseText # "" THEN JsonParse(responseText) ELSE NullData
  IN IF isRateLimitError(xhr.status, data, responseText) THEN Retry
     ELSE IF xhr.status >= 200 /\ xhr.status < 300
     THEN IF data.isNull THEN Throw(NoDataMsg)
          ELSE extractResponseContent(data)
     ELSE IF data.errorMessage # "" THEN Throw(data.errorMessage)
     ELSE Throw(HttpErrorMsg(xhr.status, xhr.statusText))

\* translationService.ts:369-392: what the loop does with a response
ResponseOutcome(xhr) ==
  LET responseText == xhr.responseText
      data == IF responseText # "" THEN JsonParse(responseText) ELSE NullData
  IN IF xhr.status >= 200 /\ xhr.status < 300
     THEN IF data.isNull THEN Throw(NoDataMsg)
          ELSE extractResponseContent(data)
     ELSE IF isRateLimitError(xhr.status, data, responseText) THEN Retry
     ELSE IF data.errorMessage # "" THEN Throw(data.errorMessage)
     ELSE Throw(HttpErrorMsg(xhr.status, xhr.statusText))

\* the outcome of each of the responses, computed once
OutcomeOf == [xhr \in ResponseSamples |-> ResponseOutcome(xhr)]

\* htmlTranslator.ts:157, 191 `if (!translated) continue`: the loop goes on
\* to its next unit, nothing inserted and nothing counted
OnEmpty(w) ==
  /\ IF Serial
     THEN /\ SerialIteration(serialPos + 1, providerProgress, translatedCount,
                             errorReason)
          /\ queue' = queue
     ELSE /\ WorkerIteration(w, providerProgress)
          /\ UNCHANGED <<serialPos, result>>
  /\ UNCHANGED <<aborted, errorReason, failedUnits, errorLog, insertCount,
                 inserted, translatedCount, callbackCount>>

\* translationService.ts:368-393 and the try/catch around the call
\* (htmlTranslator.ts:152-174, 186-211): the response xhr arrives
HandleResponse(w, xhr) ==
  /\ TaskMayRun
  /\ pc[w] = "sending"
  /\ LET o == OutcomeOf[xhr] IN
       CASE o.kind = "return" /\ Truthy(o.value) ->
              /\ OnSuccess(w)
              /\ inserted' = [inserted EXCEPT ![task[w]] = o.value]
         [] o.kind = "return" /\ ~Truthy(o.value) -> OnEmpty(w)
         [] o.kind = "throw" ->
              OnFailure(w, o.message) /\ inserted' = inserted
         [] o.kind = "retry" /\ ~RetryLoopContinues(attemptNo[w]) ->
              OnFailure(w, TransportErrorMsg) /\ inserted' = inserted
         [] o.kind = "retry" /\ RetryLoopContinues(attemptNo[w]) ->
              /\ pc' = [pc EXCEPT ![w] = "backoff"]
              /\ wakeAt' = [wakeAt EXCEPT ![w] = RetryWakeTime(now)]
              /\ rateLimitedAt' = [rateLimitedAt EXCEPT ![w] = now]
              /\ UNCHANGED <<queue, serialPos, aborted, task,
                             providerProgress, translatedCount, errorReason,
                             result, recentRequestsByProvider, insertCount,
                             inserted, callbackCount, attemptLog, failedUnits,
                             errorLog, attemptNo, acquireNo, requestSentAt>>
  /\ UNCHANGED <<otherVars, prefs, providers, reassignOnFailure, now>>

\* the response of each kind that stands for its kind
CanonicalResponse(r) ==
  CASE r = "ok" -> OkResponse
    [] r = "rateLimited" -> RateLimitedResponse
    [] r = "httpError" -> HttpErrorResponse
    [] r = "emptyContent" -> EmptyContentResponse

Respond(w, r) == HandleResponse(w, CanonicalResponse(r))

Reject(w) ==
  /\ AllStarted
  /\ pc[w] = "rejected"
  /\ OnFailure(w, ConfigErrorMsg)
  /\ UNCHANGED <<otherVars, prefs, inserted, providers, reassignOnFailure, now>>

\* mutant: the retry sends the request without waitForRateLimit
RetryStep_SkipsAcquire(w) ==
  /\ pc' = [pc EXCEPT ![w] = "sending"]
  /\ wakeAt' = [wakeAt EXCEPT ![w] = 0]
  /\ attemptNo' = [attemptNo EXCEPT ![w] = @ + 1]
  /\ requestSentAt' = [requestSentAt EXCEPT ![w] = now]
  /\ UNCHANGED <<recentRequestsByProvider, acquireNo>>

\* translationService.ts:386 and 357-360: continue goes back to the top of
\* the loop, where waitForRateLimit comes before the request
RetryStep(w) == SendOrWait(w, attemptNo[w])

\* translationService.ts:385-386: the retry sleep is over, continue
WakeBackoff(w) ==
  /\ TaskMayRun
  /\ pc[w] = "backoff"
  /\ now >= wakeAt[w]
  /\ RetryStep(w)
  /\ UNCHANGED <<otherVars, prefs, inserted, providers, reassignOnFailure, queue, serialPos, aborted,
                 task, providerProgress, translatedCount, errorReason, result,
                 now, insertCount, callbackCount, attemptLog, failedUnits,
                 errorLog, rateLimitedAt>>

\* translationService.ts:99-102 and 360: the sleep of waitForRateLimit is
\* over, the timestamp is pushed and the request is sent
WakeRateLimit(w) ==
  /\ TaskMayRun
  /\ pc[w] = "ratewait"
  /\ now >= wakeAt[w]
  /\ recentRequestsByProvider' =
       [recentRequestsByProvider EXCEPT
          ![BucketKey(ProviderOf(w).id)] = Append(@, now)]
  /\ pc' = [pc EXCEPT ![w] = "sending"]
  /\ attemptNo' = [attemptNo EXCEPT ![w] = @ + 1]
  /\ acquireNo' = [acquireNo EXCEPT ![w] = @ + 1]
  /\ requestSentAt' = [requestSentAt EXCEPT ![w] = now]
  /\ wakeAt' = [wakeAt EXCEPT ![w] = 0]
  /\ UNCHANGED <<otherVars, prefs, inserted, providers, reassignOnFailure, queue, serialPos, aborted,
                 task, providerProgress, translatedCount, errorReason,
                 result, now, insertCount, callbackCount, attemptLog,
                 failedUnits, errorLog, rateLimitedAt>>

\* htmlTranslator.ts:217-242: Promise.all(workers) is resolved
Join ==
  /\ ~Serial /\ Running
  /\ AllStarted /\ AllWorkersSettled
  /\ errorReason' = ReasonAfterJoin(errorReason, queue)
  /\ result' = ComputeResult(translatedCount, errorReason')
  /\ UNCHANGED <<otherVars, prefs, inserted, providers, reassignOnFailure, queue, serialPos, aborted, pc,
                 task, wakeAt, providerProgress, translatedCount,
                 recentRequestsByProvider, now, insertCount, callbackCount,
                 attemptLog, failedUnits, errorLog, attemptNo, acquireNo,
                 rateLimitedAt, requestSentAt>>

\* time passes while the batch runs
Tick ==
  /\ Running /\ TaskMayRun
  /\ now + TickMs <= MaxNow
  /\ now' = now + TickMs
  /\ UNCHANGED <<otherVars, prefs, inserted, providers, reassignOnFailure, queue, serialPos, aborted, pc,
                 task, wakeAt, providerProgress, translatedCount, errorReason,
                 result, recentRequestsByProvider, insertCount, callbackCount,
                 attemptLog, failedUnits, errorLog, attemptNo, acquireNo,
                 rateLimitedAt, requestSentAt>>

Next ==
  \/ \E w \in Workers : StartWorker(w)
  \/ StartSerial
  \/ \E w \in Workers : \E r \in Responses : Respond(w, r)
  \/ \E w \in Workers : Reject(w)
  \/ \E w \in Workers : WakeBackoff(w)
  \/ \E w \in Workers : WakeRateLimit(w)
  \/ Join
  \/ Tick

Spec == Init /\ [][Next]_vars

\* ------------------------------------ specification with fair scheduling
\* every send call returns in the end: the provider stops signalling rate
\* limits once the clock has reached MaxNow - RetryDelayMs
RespondLive(w, r) ==
  /\ r = "rateLimited" => now + RetryDelayMs <= MaxNow
  /\ Respond(w, r)

\* the clock goes on, beyond MaxNow too, while a sleep waits for it
TickLive ==
  /\ Running /\ TaskMayRun
  /\ \E w \in Workers :
       pc[w] \in {"backoff", "ratewait"} /\ now < wakeAt[w]
  /\ now' = now + TickMs
  /\ UNCHANGED <<otherVars, prefs, inserted, providers, reassignOnFailure, queue,
                 serialPos, aborted, pc, task, wakeAt, providerProgress,
                 translatedCount, errorReason, result,
                 recentRequestsByProvider, insertCount, callbackCount,
                 attemptLog, failedUnits, errorLog, attemptNo, acquireNo,
                 rateLimitedAt, requestSentAt>>

NextLive ==
  \/ \E w \in Workers : StartWorker(w)
  \/ StartSerial
  \/ \E w \in Workers : \E r \in Responses : RespondLive(w, r)
  \/ \E w \in Workers : Reject(w)
  \/ \E w \in Workers : WakeBackoff(w)
  \/ \E w \in Workers : WakeRateLimit(w)
  \/ Join
  \/ TickLive

\* the largest number of workers of a batch
MaxWorkers == CHOOSE n \in ProviderCounts : \A m \in ProviderCounts : m <= n
\* the responses that end a call
FinalResponses == Responses \ {"rateLimited"}

\* the event loop runs every task that is ready, the clock advances, and a
\* request in flight gets a response
Fairness ==
  /\ WF_vars(StartSerial)
  /\ WF_vars(Join)
  /\ WF_vars(TickLive)
  /\ \A w \in 1..MaxWorkers :
       /\ WF_vars(w \in Workers /\ StartWorker(w))
       /\ WF_vars(w \in Workers /\ Reject(w))
       /\ WF_vars(w \in Workers /\ WakeBackoff(w))
       /\ WF_vars(w \in Workers /\ WakeRateLimit(w))
       /\ WF_vars(w \in Workers /\ \E r \in FinalResponses : Respond(w, r))

SpecLive == Init /\ [][NextLive]_vars /\ Fairness

\* ------------------------------- specification of the progress log
\* translationProgress: if (state.logs.length > 200)
LogCap == 200
\* the most messages appended between two starts
MaxAppends == 203

\* no batch runs: the variables of the batch as they are before one starts
NoBatch ==
  /\ prefs = PrefsFor(<<[id |-> FirstId, name |-> ProviderName,
                         apiBaseUrl |-> BaseUrl, rpm |-> 0, apiKey |-> TRUE]>>)
  /\ providers = <<>>
  /\ reassignOnFailure = FALSE
  /\ queue = <<>>
  /\ serialPos = 0
  /\ aborted = FALSE
  /\ pc = <<>>
  /\ task = <<>>
  /\ wakeAt = <<>>
  /\ providerProgress = <<>>
  /\ translatedCount = 0
  /\ errorReason = ""
  /\ result = NoResult
  /\ recentRequestsByProvider = [i \in ProviderIds |-> <<>>]
  /\ now = 0
  /\ insertCount = [u \in Units |-> 0]
  /\ inserted = [u \in Units |-> Undefined]
  /\ callbackCount = 0
  /\ attemptLog = [u \in Units |-> <<>>]
  /\ failedUnits = {}
  /\ errorLog = <<>>
  /\ attemptNo = <<>>
  /\ acquireNo = <<>>
  /\ rateLimitedAt = <<>>
  /\ requestSentAt = <<>>

\* mutant: the newest message is dropped
LogsAfterAppend_DropsNewest(l, message) ==
  LET pushed == Append(l, message)
  IN IF Len(pushed) > LogCap THEN SubSeq(pushed, 1, Len(pushed) - 1)
     ELSE pushed

\* htmlTranslator.ts:898-901: push, then shift when longer than 200
LogsAfterAppend(l, message) ==
  LET pushed == Append(l, message)
  IN IF Len(pushed) > LogCap THEN Tail(pushed) ELSE pushed

\* htmlTranslator.ts:897-903; the message is the number of the append, so
\* that the messages differ
addTranslationLog ==
  /\ Len(appended) < MaxAppends
  /\ logs' = LogsAfterAppend(logs, Len(appended) + 1)
  /\ appended' = Append(appended, Len(appended) + 1)
  /\ UNCHANGED <<batchVars, docVars, menuVars>>

\* htmlTranslator.ts:879-885: state.logs = []
startTranslationProgress ==
  /\ logs' = <<>>
  /\ appended' = <<>>
  /\ UNCHANGED <<batchVars, docVars, menuVars>>

InitLog == NoBatch /\ OtherInit

NextLog == addTranslationLog \/ startTranslationProgress

SpecLog == InitLog /\ [][NextLog]_vars

\* ------------------------------- specification of repeated runs
\* the most elements of the body of a fresh attachment
MaxNodes == 3
\* the most runs on one attachment
MaxRuns == 3

\* an element of the body: a paragraph with or without text, or a div that
\* is no translation block
NodeKinds == {"p", "emptyP", "div"}
\* the element number i of a fresh attachment
FreshNode(kind, i) ==
  [tag |-> IF kind = "div" THEN "div" ELSE "p", id |-> i,
   text |-> kind = "p", cls |-> FALSE, attr |-> FALSE]
\* htmlTranslator.ts:89-93: the block made for the paragraph k
TranslationBlock(k) ==
  [tag |-> "div", id |-> k, text |-> TRUE, cls |-> TRUE, attr |-> TRUE]

\* htmlTranslator.ts:76-78 querySelectorAll("p"): the positions of the
\* paragraphs
getParagraphs(d) == {i \in DOMAIN d : d[i].tag = "p"}

\* mutant: the class is looked up on the paragraph itself
alreadyTranslated_ClassOfParagraph(d, i) ==
  IF i = Len(d) THEN FALSE
  ELSE IF d[i].cls THEN TRUE
  ELSE FALSE

\* htmlTranslator.ts:80-85; the elements of d are siblings
alreadyTranslated(d, i) ==
  IF i = Len(d) THEN FALSE
  ELSE IF d[i + 1].cls THEN TRUE
  ELSE d[i].attr

\* htmlTranslator.ts:136-142: the positions of the units of a run
TasksOf(d) ==
  {i \in getParagraphs(d) : ~alreadyTranslated(d, i) /\ d[i].text}

\* htmlTranslator.ts:87-96 insertTranslation for the paragraphs at the
\* positions ok of d: a block after each, the attribute set on each
RECURSIVE InsertFrom(_, _, _)
InsertFrom(d, ok, i) ==
  IF i > Len(d) THEN <<>>
  ELSE IF i \in ok
       THEN <<[d[i] EXCEPT !.attr = TRUE], TranslationBlock(d[i].id)>>
              \o InsertFrom(d, ok, i + 1)
       ELSE <<d[i]>> \o InsertFrom(d, ok, i + 1)

\* htmlTranslator.ts:98-243: one run on the attachment; the units at the
\* positions ok are translated, the others fail or are never reached; the
\* file is written when a unit was translated
translateHtmlAttachment ==
  /\ doc # <<>>
  /\ runs < MaxRuns
  /\ \E ok \in SUBSET TasksOf(doc) :
       /\ doc' = IF ok = {} THEN doc ELSE InsertFrom(doc, ok, 1)
       /\ lastTasks' = {doc[i].id : i \in TasksOf(doc)}
       /\ lastInserted' = {doc[i].id : i \in ok}
  /\ runs' = runs + 1
  /\ UNCHANGED <<batchVars, dialogVars, menuVars>>

InitRerun ==
  /\ NoBatch
  /\ logs = <<>> /\ appended = <<>>
  /\ itemMenusRegistered = FALSE /\ toolsMenusRegistered = FALSE
  /\ menus = {} /\ events = <<>>
  /\ \E n \in 1..MaxNodes : \E kinds \in [1..n -> NodeKinds] :
       doc = [i \in 1..n |-> FreshNode(kinds[i], i)]
  /\ lastTasks = {}
  /\ lastInserted = {}
  /\ runs = 0

NextRerun == translateHtmlAttachment

SpecRerun == InitRerun /\ [][NextRerun]_vars

\* ------------------------------- specification of the window events
\* the most window events
MaxEvents == 8

\* menus.ts:41-76: the ids of the item menus
ItemMenuIds ==
  {"zotero-itemmenu-arxiv-debug", "zotero-itemmenu-arxiv-html",
   "zotero-itemmenu-arxiv-html-translate", "zotero-itemmenu-google-scholar"}
\* menus.ts:78-87: the id of the tools menu
ToolsMenuIds == {"zotero-menu-translation-progress"}

\* hooks.ts:50: every load makes a toolkit; the toolkit in use is the one
\* of the last load
Loads == Cardinality({i \in DOMAIN events : events[i] = "load"})
\* the main windows that are open
OpenWindows == 2 * Loads - Len(events)

\* menus.ts:41-76 through the toolkit tk
registerItemMenus(ms, tk) ==
  IF itemMenusRegistered THEN ms
  ELSE ms \cup {[id |-> i, toolkit |-> tk] : i \in ItemMenuIds}

\* menus.ts:78-87 through the toolkit tk
registerToolsMenus(ms, tk) ==
  IF toolsMenusRegistered THEN ms
  ELSE ms \cup {[id |-> i, toolkit |-> tk] : i \in ToolsMenuIds}

\* hooks.ts:48-58
onMainWindowLoad ==
  /\ Len(events) < MaxEvents
  /\ menus' = registerToolsMenus(registerItemMenus(menus, Loads + 1),
                                 Loads + 1)
  /\ itemMenusRegistered' = TRUE
  /\ toolsMenusRegistered' = TRUE
  /\ events' = Append(events, "load")
  /\ UNCHANGED <<batchVars, dialogVars, docVars>>

\* hooks.ts:60-62: unregisterAll takes away every menu registered through
\* the toolkit in use
onMainWindowUnload ==
  /\ Len(events) < MaxEvents
  /\ OpenWindows > 0
  /\ menus' = {m \in menus : m.toolkit # Loads}
  /\ events' = Append(events, "unload")
  /\ UNCHANGED <<batchVars, dialogVars, docVars, itemMenusRegistered,
                 toolsMenusRegistered>>

InitMenus == NoBatch /\ OtherInit

NextMenus == onMainWindowLoad \/ onMainWindowUnload

SpecMenus == InitMenus /\ [][NextMenus]_vars

\* ------------------------------- specification of the translation client
\* a serial batch whose provider answers with any of the responses
InitClient == Init /\ Len(providers) = 1

NextClient ==
  \/ StartSerial
  \/ \E xhr \in ResponseSamples : HandleResponse(1, xhr)
  \/ Reject(1)
  \/ WakeBackoff(1)
  \/ WakeRateLimit(1)
  \/ Tick

SpecClient == InitClient /\ [][NextClient]_vars

\* ------------------------------------- specification of the resolution
\* the longest raw provider list
MaxRegistered == 2
\* raw entries of the translationProviders preference: any of id, name and
\* apiBaseUrl may be missing
RawProviderRecords ==
  [id : RawIds, name : {"", ProviderName}, apiBaseUrl : {"", BaseUrl},
   rpm : {1}, apiKey : {TRUE}]
RawProviderLists ==
  UNION {[1..n -> RawProviderRecords] : n \in 0..MaxRegistered}
\* translationProviderSelection: empty, known ids, an id of no provider
SelectionIds == {"", "p1", "p2", "gone"}
\* translationParallelProviders: empty, known, unknown and mixed lists
ParallelSelections ==
  {<<>>, <<"p2">>, <<"gone">>, <<"p2", "p1">>, <<"", "gone">>}

\* the batch has not read its preferences yet
InitResolve ==
  /\ prefs \in [translationProviders : RawProviderLists,
                translationProviderSelection : SelectionIds,
                translationParallelEnabled : BOOLEAN,
                translationParallelProviders : ParallelSelections]
  /\ providers = <<>>
  /\ reassignOnFailure = FALSE
  /\ queue = <<>>
  /\ serialPos = 0
  /\ aborted = FALSE
  /\ pc = <<>>
  /\ task = <<>>
  /\ wakeAt = <<>>
  /\ providerProgress = <<>>
  /\ translatedCount = 0
  /\ errorReason = ""
  /\ result = NoResult
  /\ recentRequestsByProvider = [i \in ProviderIds |-> <<>>]
  /\ now = 0
  /\ insertCount = [u \in Units |-> 0]
  /\ inserted = [u \in Units |-> Undefined]
  /\ OtherInit
  /\ callbackCount = 0
  /\ attemptLog = [u \in Units |-> <<>>]
  /\ failedUnits = {}
  /\ errorLog = <<>>
  /\ attemptNo = <<>>
  /\ acquireNo = <<>>
  /\ rateLimitedAt = <<>>
  /\ requestSentAt = <<>>

\* htmlTranslator.ts:123-135: the batch resolves its providers and makes one
\* progress record for each
ResolveProviders ==
  /\ providers = <<>>
  /\ providers' = getParallelProviders(prefs)
  /\ LET ws == 1..Len(providers') IN
       /\ pc' = [w \in ws |-> "start"]
       /\ task' = [w \in ws |-> NoTask]
       /\ wakeAt' = [w \in ws |-> 0]
       /\ providerProgress' =
            [w \in ws |-> [total |-> 0, done |-> 0, failed |-> 0, error |-> ""]]
       /\ attemptNo' = [w \in ws |-> 0]
       /\ acquireNo' = [w \in ws |-> 0]
       /\ rateLimitedAt' = [w \in ws |-> -1]
       /\ requestSentAt' = [w \in ws |-> -1]
       /\ queue' = IF Len(providers') <= 1 THEN <<>> ELSE [i \in Units |-> i]
  /\ UNCHANGED <<otherVars, prefs, inserted, reassignOnFailure, serialPos, aborted, translatedCount,
                 errorReason, result, recentRequestsByProvider, now,
                 insertCount, callbackCount, attemptLog, failedUnits, errorLog>>

NextResolve == ResolveProviders

SpecResolve == InitResolve /\ [][NextResolve]_vars

TypeOK ==
  /\ pc \in [Workers -> {"start", "ratewait", "sending", "backoff",
                         "rejected", "returned"}]
  /\ task \in [Workers -> Units \cup {NoTask}]
  /\ now \in 0..MaxNow
  /\ translatedCount \in 0..NumUnits

\* =================================================================
\* Properties
\* =================================================================
Done == result.status # "none"
Translated(u) == insertCount[u] >= 1
AllTranslated == \A u \in Units : Translated(u)
\* number of requests in the bucket b that are younger than the window at t
Recent(b, t) == Cardinality({i \in DOMAIN b : t - b[i] < windowMs})
\* number of places of the queue that hold unit u
InQueue(u) == Cardinality({i \in DOMAIN queue : queue[i] = u})
\* workers that hold unit u
Holders(u) == {w \in Workers : task[w] = u}
\* provider w failed on the first call it made
FirstCallFailed(w) ==
  providerProgress[w].failed >= 1 /\ providerProgress[w].done = 0
\* provider w made calls and succeeded on each
AlwaysSucceeded(w) ==
  providerProgress[w].failed = 0 /\ providerProgress[w].done >= 1
     /\ pc[w] = "returned"

\* no two providers of the batch have the same id
DistinctIds ==
  \A v, w \in Workers : v # w => ProviderOf(v).id # ProviderOf(w).id

\* C1: parallel mode with reassignOnFailure: when a provider succeeds on
\* every call it makes, every unit of the batch is translated once the batch
\* has ended (a batch that has ended takes no further step, so a unit that
\* is not translated then is never translated).
C1_AllUnitsTranslated ==
  (Done /\ ~Serial /\ reassignOnFailure /\ DistinctIds
     /\ \E w \in Workers : AlwaysSucceeded(w))
  => AllTranslated

\* C2: parallel mode with reassignOnFailure: when a provider failed on its
\* first call and every unit was translated by the other providers, the
\* result is translated(N), N the number of units.
C2_ResultTranslatedN ==
  (Done /\ ~Serial /\ reassignOnFailure /\ DistinctIds /\ AllTranslated
     /\ \E w \in Workers : FirstCallFailed(w))
  => (result.status = "translated" /\ result.count = NumUnits)

\* C3: for every provider with rpm > 0 the bucket of its id never holds more
\* than rpm timestamps younger than 60 000 ms (stated for the ids all of
\* whose providers have the same rpm, so that "rpm of the id" is defined).
C3_WindowHoldsAtMostRpm ==
  \A w \in Workers :
    (/\ ProviderOf(w).rpm > 0
     /\ \A v \in Workers : ProviderOf(v).id = ProviderOf(w).id
                            => ProviderOf(v).rpm = ProviderOf(w).rpm)
    => Recent(recentRequestsByProvider[ProviderOf(w).id], now)
         <= ProviderOf(w).rpm

\* the window bound of C3 for the batches whose providers have distinct ids,
\* where every bucket has one caller at a time
WindowBoundWithDistinctIds ==
  DistinctIds =>
    \A w \in Workers :
      ProviderOf(w).rpm > 0
      => Recent(recentRequestsByProvider[ProviderOf(w).id], now)
           <= ProviderOf(w).rpm

\* C4: in a parallel batch every unit is at every instant in exactly one
\* place: once in the queue, held by one worker, translated (once), or
\* failed and dropped, the last only without reassignOnFailure.
C4_UnitInExactlyOnePlace ==
  ~Serial =>
    /\ \A u \in Units :
         InQueue(u) + Cardinality(Holders(u)) + insertCount[u]
           + (IF u \in failedUnits THEN 1 ELSE 0) = 1
    /\ reassignOnFailure => failedUnits = {}

\* a unit failed at one provider, went back to the queue and was translated
\* by another
C4_Witness ==
  /\ ~Serial /\ reassignOnFailure
  /\ \E u \in Units : Len(attemptLog[u]) = 2 /\ Translated(u)

\* C5: serial mode: the units are attempted in input order, each at most
\* once and only after the one before it is translated; when the call for
\* unit k is the first to fail, exactly the units 1..k-1 are translated, no
\* unit after k is attempted, and the result is partial with count k-1 when
\* k > 1 (failed when k = 1).
C5_SerialStopsAtFirstFailure ==
  Serial =>
    /\ \A u \in Units :
         /\ Len(attemptLog[u]) <= 1
         /\ (attemptLog[u] # <<>>) <=> (u <= serialPos)
         /\ u < serialPos => insertCount[u] = 1
    /\ \A k \in Units :
         (Done /\ k \in failedUnits) =>
           /\ failedUnits = {k}
           /\ \A u \in Units : insertCount[u] = (IF u < k THEN 1 ELSE 0)
           /\ \A u \in Units : u > k => attemptLog[u] = <<>>
           /\ translatedCount = k - 1
           /\ result.reason = errorLog[1]
           /\ IF k > 1
              THEN result.status = "partial" /\ result.count = k - 1
              ELSE result.status = "failed"

\* the spec's instance: the second call fails, the result is partial(1)
C5_Witness ==
  /\ Serial /\ Done /\ failedUnits = {2}
  /\ result.status = "partial" /\ result.count = 1
  /\ insertCount[1] = 1

\* C6: parallel mode without reassignOnFailure: no unit is attempted twice,
\* and when a provider's first call failed the result is partial or failed.
C6_AbortWithoutReassign ==
  (~Serial /\ ~reassignOnFailure) =>
    /\ \A u \in Units : Len(attemptLog[u]) <= 1
    /\ (Done /\ \E w \in Workers : FirstCallFailed(w))
         => result.status \in {"partial", "failed"}

\* both outcomes: a first call failed and nothing was translated
C6_Witness ==
  /\ ~Serial /\ ~reassignOnFailure /\ Done
  /\ \E w \in Workers : FirstCallFailed(w)
  /\ result.status = "failed"
  /\ \E u \in Units : attemptLog[u] = <<>>

\* C7: when the first request of a call was answered by a rate-limit signal
\* and the second by a translation, at least 60 000 ms lie between the
\* rate-limited response and the second request, and the step that takes
\* the translation counts the unit once: translatedCount and the provider's
\* done counter go up by one, the paragraph has one translation block, and
\* the failed counter does not move.
C7_RetryAfterRateLimit ==
  [][\A w \in Workers :
       (/\ pc[w] = "sending" /\ attemptNo[w] = 2 /\ rateLimitedAt[w] >= 0
        /\ Respond(w, "ok"))
       => /\ requestSentAt[w] - rateLimitedAt[w] >= 60000
          /\ translatedCount' = translatedCount + 1
          /\ insertCount'[task[w]] = 1
          /\ providerProgress'[w].done = providerProgress[w].done + 1
          /\ providerProgress'[w].failed = providerProgress[w].failed
          /\ task[w] \notin failedUnits'
          /\ InQueue(task[w])' = 0]_vars

\* a worker whose last call took two requests (the first was rate-limited,
\* nothing else sends a second request) and which returned without any
\* failure: the retried call was translated
C7_Witness ==
  \E w \in Workers :
    /\ pc[w] = "returned" /\ attemptNo[w] = 2
    /\ providerProgress[w].failed = 0 /\ providerProgress[w].done >= 1

\* C8 as stated: when the batch has ended every unit is in a terminal state,
\* done or failed.
C8_EveryUnitTerminal ==
  Done => \A u \in Units :
            \/ insertCount[u] = 1 /\ u \notin failedUnits
            \/ insertCount[u] = 0 /\ u \in failedUnits

\* C8 amended: a unit reaches at most one terminal state (done once, or
\* failed, never both); when no call failed every unit is attempted once and
\* done at the end; the units without terminal state at the end are the ones
\* a failure left behind: never attempted (serial) or still in the queue
\* (parallel).
C8_AtMostOneTerminalState ==
  /\ \A u \in Units :
       /\ insertCount[u] <= 1
       /\ ~(insertCount[u] = 1 /\ u \in failedUnits)
  /\ Done =>
       /\ errorLog = <<>> =>
            \A u \in Units : insertCount[u] = 1 /\ Len(attemptLog[u]) = 1
       /\ \A u \in Units :
            (insertCount[u] = 0 /\ u \notin failedUnits) =>
              /\ errorLog # <<>>
              /\ IF Serial THEN attemptLog[u] = <<>> ELSE InQueue(u) = 1

\* a batch that ended with a translated unit, a failed unit and a unit that
\* is neither
C8_Witness ==
  /\ Done
  /\ \E u \in Units : insertCount[u] = 1
  /\ \E u \in Units : u \in failedUnits
  /\ \E u \in Units : insertCount[u] = 0 /\ u \notin failedUnits

\* C9: parallel mode with reassignOnFailure: when every provider has failed
\* and the queue is not empty at the end, the reason of the batch is the
\* message of htmlTranslator.ts line 219.
C9_AllProvidersFailedReason ==
  (/\ Done /\ ~Serial /\ reassignOnFailure /\ DistinctIds
   /\ \A w \in Workers : providerProgress[w].failed >= 1
   /\ queue # <<>>)
  => result.reason = AllProvidersFailedMsg

\* C10: when a fatal error occurred in the batch, the result is partial or
\* failed and its reason is the first fatal error of the batch; a partial or
\* failed result has no other origin.
C10_ReasonIsFirstFatalError ==
  Done =>
    /\ errorLog # <<>> =>
         result.status \in {"partial", "failed"} /\ result.reason = errorLog[1]
    /\ result.status \in {"partial", "failed"} => errorLog # <<>>

\* two workers failed with different messages
C10_Witness ==
  /\ Done /\ Len(errorLog) >= 2 /\ errorLog[2] # errorLog[1]
  /\ result.reason = errorLog[1]

\* C11: in a parallel batch no unit is held by two workers at once, and a
\* unit a worker holds is not in the shared queue.
C11_AtMostOneProviderPerUnit ==
  ~Serial =>
    /\ \A v, w \in Workers :
         (v # w /\ task[v] # NoTask) => task[v] # task[w]
    /\ \A w \in Workers : task[w] # NoTask => InQueue(task[w]) = 0

\* two workers have a request in flight, each for its own unit, while the
\* queue still holds a unit
C11_Witness ==
  /\ ~Serial /\ queue # <<>>
  /\ \E v, w \in Workers :
       /\ v # w /\ pc[v] = "sending" /\ pc[w] = "sending"
       /\ task[v] # NoTask /\ task[w] # NoTask

\* units assigned to provider w and not finished: the unit the worker holds
\* (parallel), the units not yet translated or failed (serial, once the loop
\* has started)
Remaining(w) ==
  IF Serial
  THEN IF pc[w] = "start" THEN 0
       ELSE Cardinality({u \in Units :
                           insertCount[u] = 0 /\ u \notin failedUnits})
  ELSE Cardinality({u \in Units : task[w] = u})

\* C12: for every provider done + failed + remaining = total at all times;
\* so done + failed <= total, and in parallel mode a provider that holds no
\* unit has done + failed = total.
C12_ProgressAddsUp ==
  \A w \in Workers :
    LET p == providerProgress[w]
    IN /\ p.done + p.failed + Remaining(w) = p.total
       /\ p.done + p.failed <= p.total
       /\ (~Serial /\ task[w] = NoTask) => p.done + p.failed = p.total

\* a parallel worker that has finished a unit holds another one, while the
\* other worker has failed
C12_Witness ==
  /\ ~Serial
  /\ \E v, w \in Workers :
       /\ providerProgress[w].done >= 1 /\ task[w] # NoTask
       /\ providerProgress[w].total = providerProgress[w].done + 1
       /\ providerProgress[v].failed = 1

\* C13: the shared queue never holds a translated unit, and a unit enters
\* the queue only in the step in which the attempt of the worker holding it
\* fails: a step that translates a unit adds nothing to the queue.
C13_QueueHoldsNoDoneUnit ==
  [][/\ \A u \in Units : Translated(u)' => InQueue(u)' = 0
     /\ \A u \in Units :
          InQueue(u)' > InQueue(u) =>
            /\ insertCount' = insertCount
            /\ \E w \in Workers :
                 /\ task[w] = u
                 /\ providerProgress'[w].failed
                      = providerProgress[w].failed + 1]_vars

\* a unit went back to the queue after a failure while another unit is
\* translated
C13_Witness ==
  /\ ~Serial
  /\ \E u \in Units : InQueue(u) = 1 /\ attemptLog[u] # <<>>
  /\ \E u \in Units : Translated(u)

\* C14: a rate-limit answer never fails the call: the step that receives it
\* changes no counter, reason or result and puts the call to sleep for
\* 60 000 ms; the step that ends the sleep comes at least 60 000 ms after
\* the answer and goes on with the same unit (acquire, then the request
\* again); every failure of a unit is the step of a transport error, of an
\* empty body or of a missing API key; and a translation that answers a
\* retry is delivered in the step that receives it, whatever the number of
\* rate-limit answers before it.
C14_RateLimitRetriedWithoutFailure ==
  [][\A w \in Workers :
       /\ (pc[w] = "sending" /\ Respond(w, "rateLimited")) =>
            /\ pc'[w] = "backoff" /\ wakeAt'[w] = now + 60000
            /\ task' = task /\ attemptNo' = attemptNo
            /\ UNCHANGED <<providerProgress, errorReason, errorLog,
                           failedUnits, result, queue, aborted,
                           translatedCount>>
       /\ (pc[w] = "backoff" /\ WakeBackoff(w)) =>
            /\ now - rateLimitedAt[w] >= 60000
            /\ task' = task
            /\ pc'[w] \in {"sending", "ratewait"}
            /\ pc'[w] = "sending" => attemptNo'[w] = attemptNo[w] + 1
       /\ providerProgress'[w].failed # providerProgress[w].failed =>
            \/ Respond(w, "httpError") \/ Respond(w, "emptyContent")
            \/ Reject(w)
       /\ (pc[w] = "sending" /\ attemptNo[w] >= 2 /\ Respond(w, "ok")) =>
            /\ insertCount'[task[w]] = insertCount[task[w]] + 1
            /\ providerProgress'[w].done = providerProgress[w].done + 1
            /\ errorLog' = errorLog]_vars

\* a call that took three requests (two rate-limit answers in a row) and
\* whose worker returned without any failure
C14_Witness ==
  \E w \in Workers :
    /\ pc[w] = "returned" /\ attemptNo[w] = 3
    /\ providerProgress[w].failed = 0 /\ providerProgress[w].done >= 1

\* rpm is not a positive finite number
Unlimited(rpm) == ~IsFinite(rpm) \/ rpm <= 0

\* C15: waitForRateLimit with an rpm that is not finite or is <= 0 never
\* delays: a worker whose provider has such an rpm is never in the sleep of
\* the rate limiter, and for every such rpm the call returns at once and
\* leaves the bucket as it is, on every bucket and at every time the batch
\* reaches.
C15_UnlimitedNeverDelays ==
  /\ \A w \in Workers : Unlimited(ProviderOf(w).rpm) => pc[w] # "ratewait"
  /\ \A id \in ProviderIds :
       \A rpm \in {0, NaNRpm} \cup OtherUnlimitedRpm :
         waitForRateLimit(rpm, recentRequestsByProvider[id], now)
           = [bucket |-> recentRequestsByProvider[id], waitMs |-> 0]

\* the request of a provider with rpm 0 goes out at once while the bucket
\* of its id holds a timestamp younger than the window
C15_Witness ==
  \E w \in Workers :
    /\ Unlimited(ProviderOf(w).rpm)
    /\ pc[w] = "sending" /\ requestSentAt[w] = now
    /\ Recent(recentRequestsByProvider[ProviderOf(w).id], now) >= 1

\* C16: the translation of a unit is delivered at most once in a batch: a
\* paragraph never has two translation blocks and the callback has run once
\* for each unit that has one, also for a unit that went back to the queue.
C16_DeliveredAtMostOnce ==
  /\ \A u \in Units : insertCount[u] <= 1
  /\ callbackCount = Cardinality({u \in Units : insertCount[u] >= 1})

\* the batch has ended; a unit that failed at one provider was translated
\* by the other, once
C16_Witness ==
  /\ Done /\ callbackCount >= 2
  /\ \E u \in Units : Len(attemptLog[u]) = 2 /\ insertCount[u] = 1

\* C17: the result is computed only after every worker has terminated: when
\* the result exists every worker has returned and holds no unit, and no
\* later step pulls a unit, changes a progress record or delivers a
\* translation.
C17_ResultAfterAllWorkers ==
  [][/\ Done' => \A w \in Workers : pc'[w] = "returned" /\ task'[w] = NoTask
     /\ Done => UNCHANGED <<queue, task, pc, providerProgress, insertCount,
                            callbackCount, translatedCount, attemptLog,
                            result>>]_vars

\* a parallel batch has ended whose workers returned at different times:
\* one by a failure, the other after it had translated the last units
C17_Witness ==
  /\ Done /\ ~Serial
  /\ \E v, w \in Workers :
       /\ providerProgress[v].failed = 1 /\ providerProgress[v].done = 0
       /\ providerProgress[w].done >= 2

\* the call of worker w fails in this step
Fails(w) == providerProgress'[w].failed = providerProgress[w].failed + 1

\* C18: parallel mode with reassignOnFailure: the step in which the call of
\* a worker fails pushes its unit to the end of the queue, returns from
\* that worker only and leaves the aborted flag unset; a worker that has
\* failed never holds a unit again, so its failed counter stays at 1; and a
\* worker still running takes the head of the queue when its call succeeds
\* and the queue is not empty.
C18_FailedWorkerRetires ==
  [][(~Serial /\ reassignOnFailure) =>
       /\ aborted' = FALSE
       /\ \A w \in Workers :
            /\ providerProgress'[w].failed <= 1
            /\ providerProgress'[w].failed = 1 =>
                 pc'[w] = "returned" /\ task'[w] = NoTask
            /\ Fails(w) =>
                 /\ queue' = Append(queue, task[w])
                 /\ \A v \in Workers \ {w} :
                      pc'[v] = pc[v] /\ task'[v] = task[v]
            /\ (pc[w] = "sending" /\ Respond(w, "ok") /\ queue # <<>>) =>
                 /\ task'[w] = Head(queue) /\ pc'[w] # "returned"
                 /\ queue' = Tail(queue)]_vars

\* a worker failed and retired; the other worker took the unit it had
\* pushed back
C18_Witness ==
  /\ ~Serial /\ reassignOnFailure
  /\ \E v, w \in Workers :
       /\ providerProgress[w].failed = 1 /\ pc[w] = "returned"
       /\ \E u \in Units : attemptLog[u] = <<w, v>> /\ task[v] = u

\* C19: parallel mode without reassignOnFailure: the aborted flag is set
\* exactly when a call has failed, by the step of the first failure; once
\* it is set the queue does not change and no worker takes a unit: a worker
\* whose call ends returns.
C19_AbortStopsPulling ==
  [][(~Serial /\ ~reassignOnFailure) =>
       /\ aborted' <=> errorLog' # <<>>
       /\ \A w \in Workers : Fails(w) => aborted' /\ queue' = queue
       /\ aborted =>
            /\ queue' = queue
            /\ \A w \in Workers :
                 /\ task'[w] \in {task[w], NoTask}
                 /\ (pc[w] = "sending" /\ Respond(w, "ok")) =>
                      pc'[w] = "returned"]_vars

\* after the abort a worker received its translation and returned although
\* the queue was not empty
C19_Witness ==
  /\ ~Serial /\ ~reassignOnFailure /\ aborted /\ queue # <<>>
  /\ \E w \in Workers :
       /\ pc[w] = "returned"
       /\ providerProgress[w].failed = 0 /\ providerProgress[w].done >= 1

\* worker w sends a request in this step
Sends(w) ==
  pc'[w] = "sending" /\ (pc[w] # "sending" \/ task'[w] # task[w])

\* C20: every request is preceded by a call of waitForRateLimit that has
\* returned since the request before it: within a call the requests sent
\* and the completed waitForRateLimit calls are equal in number at every
\* time, the step that sends a request, first or retry, completes one, and
\* for a limited provider that step records the time of the request in the
\* bucket.
C20_AcquireBeforeEveryRequest ==
  [][\A w \in Workers :
       /\ acquireNo'[w] = attemptNo'[w]
       /\ Sends(w) =>
            /\ acquireNo'[w] =
                 (IF pc[w] \in {"backoff", "ratewait"}
                  THEN acquireNo[w] + 1 ELSE 1)
            /\ ~Unlimited(ProviderOf(w).rpm) =>
                 LET b == recentRequestsByProvider'[ProviderOf(w).id]
                 IN b # <<>> /\ b[Len(b)] = now]_vars

\* the retry of a limited provider after a rate-limit answer is in flight
C20_Witness ==
  \E w \in Workers :
    /\ pc[w] = "sending" /\ attemptNo[w] = 2 /\ acquireNo[w] = 2
    /\ rateLimitedAt[w] >= 0
    /\ ~Unlimited(ProviderOf(w).rpm)

\* the bucket of worker w's provider
BucketOf(w) == recentRequestsByProvider[ProviderOf(w).id]
\* worker w starts to sleep in waitForRateLimit in this step
Suspends(w) == pc'[w] = "ratewait" /\ pc[w] # "ratewait"
\* the sleep of worker w in waitForRateLimit ends in this step
Resumes(w) == pc[w] = "ratewait" /\ pc'[w] = "sending"

\* C21: a caller that was suspended on a full bucket records its timestamp
\* only while the bucket holds fewer than rpm timestamps younger than
\* 60 000 ms (stated, as C3, for the ids all of whose providers have the
\* same rpm).
C21_RecordsOnlyBelowRpm ==
  [][\A w \in Workers :
       (/\ Resumes(w)
        /\ \A v \in Workers : ProviderOf(v).id = ProviderOf(w).id
                               => ProviderOf(v).rpm = ProviderOf(w).rpm)
       => Recent(BucketOf(w), now) < ProviderOf(w).rpm]_vars

\* C22: the timestamp a suspended call records is the clock at the end of
\* the sleep: the step that suspends the call records nothing (it only
\* drops expired timestamps) and sets the end of the sleep after the time
\* of the call; the step that resumes it appends the clock of that step,
\* which is later than the time of the call. A call that is not suspended
\* appends the clock of its only step.
C22_TimestampIsSendTime ==
  [][\A w \in Workers :
       /\ Suspends(w) =>
            /\ BucketOf(w)' = DropExpired(BucketOf(w), now)
            /\ wakeAt'[w] > now
       /\ Resumes(w) =>
            /\ BucketOf(w)' = Append(BucketOf(w), now)
            /\ now >= wakeAt[w]
       /\ (Sends(w) /\ ~Resumes(w) /\ ~Unlimited(ProviderOf(w).rpm)) =>
            BucketOf(w)' = Append(DropExpired(BucketOf(w), now), now)]_vars

\* a call of the only provider of its id was suspended and has recorded
\* the time at which it resumed: the timestamp that made it wait is still
\* in the bucket, a window or more before the new one
C22_Witness ==
  /\ DistinctIds
  /\ \E w \in Workers :
       /\ pc[w] = "sending" /\ requestSentAt[w] = now
       /\ ProviderOf(w).rpm = 1
       /\ Len(BucketOf(w)) = 2 /\ BucketOf(w)[2] = now
       /\ BucketOf(w)[2] - BucketOf(w)[1] >= windowMs

\* worker w takes the step
Acts(w) == pc'[w] # pc[w] \/ task'[w] # task[w]

\* C23: the buckets are independent: a step changes the bucket of an id
\* only if it is the step of a worker whose provider has that id, and a
\* call is suspended only when the bucket of its own id holds rpm
\* timestamps, whatever the other buckets hold.
C23_BucketsIndependent ==
  [][/\ \A id \in ProviderIds :
          recentRequestsByProvider'[id] # recentRequestsByProvider[id] =>
            \E w \in Workers : ProviderOf(w).id = id /\ Acts(w)
     /\ \A w \in Workers :
          Suspends(w) =>
            /\ ~Unlimited(ProviderOf(w).rpm)
            /\ Len(BucketOf(w)') >= ProviderOf(w).rpm]_vars

\* the bucket of one id is full and a call waits on it, while a request
\* of a limited provider with another id went out at this very time
C23_Witness ==
  \E v, w \in Workers :
    /\ ProviderOf(v).id # ProviderOf(w).id
    /\ pc[v] = "ratewait"
    /\ Recent(BucketOf(v), now) >= ProviderOf(v).rpm
    /\ ~Unlimited(ProviderOf(w).rpm)
    /\ pc[w] = "sending" /\ requestSentAt[w] = now

\* C25: a provider without API key never has a request in flight, never
\* sleeps and never calls waitForRateLimit: its steps leave every bucket
\* as it is; the call is rejected before the clock moves, its failure
\* carries the message of normalizeProvider, and the unit is not sent to
\* that provider again.
C25_NoKeyFailsAtOnce ==
  [][\A w \in Workers :
       ~ProviderOf(w).apiKey =>
         /\ pc'[w] \in {"start", "rejected", "returned"}
         /\ attemptNo'[w] = 0 /\ acquireNo'[w] = 0
         /\ Acts(w) => recentRequestsByProvider' = recentRequestsByProvider
         /\ pc[w] = "rejected" =>
              /\ now' = now
              /\ Acts(w) =>
                   /\ Fails(w)
                   /\ providerProgress'[w].error = ConfigErrorMsg
                   /\ errorLog' = Append(errorLog, ConfigErrorMsg)
                   /\ pc'[w] = "returned"
         /\ \A u \in Units :
              Cardinality({i \in DOMAIN attemptLog'[u] :
                             attemptLog'[u][i] = w}) <= 1]_vars

\* a limited provider without API key has failed on its unit with the
\* message of normalizeProvider, and the bucket of its id is empty
C25_Witness ==
  /\ DistinctIds
  /\ \E w \in Workers :
       /\ ~ProviderOf(w).apiKey /\ ProviderOf(w).rpm = 1
       /\ pc[w] = "returned" /\ providerProgress[w].failed = 1
       /\ providerProgress[w].error = ConfigErrorMsg
       /\ BucketOf(w) = <<>>

\* the units worker w has translated
CompletedBy(w) ==
  {a \in Units : insertCount[a] >= 1 /\ attemptLog[a] # <<>>
                   /\ attemptLog[a][Len(attemptLog[a])] = w}
\* the call of worker w ends with a translation in this step
Completes(w) ==
  task[w] # NoTask /\ insertCount'[task[w]] = insertCount[task[w]] + 1

\* C27 as stated: the units one provider completes are completed in input
\* order, also when a unit has been pushed back to the queue.
C27_CompletesInInputOrder ==
  [][\A w \in Workers :
       Completes(w) => \A a \in CompletedBy(w) : a < task[w]]_vars

\* C27 amended: the units one provider completes are completed in input
\* order, except that a unit that was pushed back to the queue after a
\* failure may be completed after units that follow it in the input.
C27_InputOrderButRequeued ==
  [][\A w \in Workers :
       Completes(w) =>
         \A a \in CompletedBy(w) :
           a < task[w] \/ (reassignOnFailure /\ Len(attemptLog[task[w]]) >= 2)]_vars

\* a worker has translated the last unit of the input and then the first
\* one, which another worker had pushed back
C27_Witness ==
  /\ ~Serial /\ reassignOnFailure
  /\ \E w \in Workers :
       /\ {1, NumUnits} \subseteq CompletedBy(w)
       /\ Len(attemptLog[1]) = 2
       /\ Len(attemptLog[NumUnits]) = 1

\* C28: a progress record changes only in a step of its own worker: the
\* step of one worker leaves the records of the others as they are.
C28_ProgressOwnedByWorker ==
  [][\A j \in Workers :
       providerProgress'[j] # providerProgress[j] =>
         /\ Acts(j)
         /\ \A i \in Workers \ {j} :
              ~Acts(i) /\ providerProgress'[i] = providerProgress[i]]_vars

\* the second worker has failed, the first has translated a unit, and
\* each record shows only its own worker's calls
C28_Witness ==
  /\ ~Serial
  /\ providerProgress[2].failed = 1 /\ providerProgress[2].error # ""
  /\ providerProgress[2].done = 0
  /\ providerProgress[1].done >= 1 /\ providerProgress[1].failed = 0
  /\ providerProgress[1].error = ""


\* ------------------------------------------------ provider resolution
\* the registered providers of the preferences
Registered == getAllProviders(prefs)
\* the batch has resolved its providers
Resolved == providers # <<>>
\* the single selected id is empty or the id of no registered provider
SingleUnknown ==
  \A i \in DOMAIN Registered :
    Registered[i].id # prefs.translationProviderSelection
\* the selection list is empty or names no registered provider
ListUnknown ==
  \A j \in DOMAIN prefs.translationParallelProviders :
    \A i \in DOMAIN Registered :
      Registered[i].id # prefs.translationParallelProviders[j]
\* the first registered provider with the single selected id
SingleSelected ==
  Registered[CHOOSE i \in DOMAIN Registered :
               /\ Registered[i].id = prefs.translationProviderSelection
               /\ \A j \in 1..(i - 1) :
                    Registered[j].id # prefs.translationProviderSelection]

\* C29 as stated: when the selection of the mode (the single id in serial
\* mode, the list in parallel mode) is empty or names no registered
\* provider, the batch resolves the first registered provider.
C29_FallsBackToFirst ==
  (Resolved /\ IF prefs.translationParallelEnabled THEN ListUnknown
                ELSE SingleUnknown)
    => providers = <<Registered[1]>>

\* C29 amended: a selection list that is empty or names no registered
\* provider falls back to the single selected id, and a single selected id
\* that is empty or names no registered provider falls back to the first
\* registered provider.
C29_FallsBackToSingleThenFirst ==
  (Resolved /\ (~prefs.translationParallelEnabled \/ ListUnknown))
    => providers = <<IF SingleUnknown THEN Registered[1] ELSE SingleSelected>>

C29_Witness ==
  /\ Resolved
  /\ prefs.translationParallelEnabled
  /\ prefs.translationParallelProviders = <<"", "gone">>
  /\ prefs.translationProviderSelection = "gone"
  /\ Len(Registered) = 2
  /\ Registered[1].id # Registered[2].id
  /\ providers = <<Registered[1]>>

\* C30: no two providers resolved for a batch share an id.
C30_ResolvedIdsDistinct ==
  \A i, j \in DOMAIN providers : providers[i].id = providers[j].id => i = j

\* ------------------------------------------------ the response
\* the status of xhr lies in 200..299
Is2xx(xhr) == xhr.status >= 200 /\ xhr.status < 300
\* the body of xhr as JSON.parse reads it
BodyOf(xhr) == JsonParse(xhr.responseText)
\* worker w stops for the retry sleep and nothing else happens
Pauses(w) ==
  /\ pc'[w] = "backoff" /\ wakeAt'[w] = now + 60000
  /\ UNCHANGED <<task, providerProgress, errorReason, errorLog, failedUnits,
                 result, attemptLog, attemptNo, insertCount, translatedCount>>
\* the call of worker w fails with msg and sends nothing more
FailsWith(w, msg) ==
  /\ Fails(w)
  /\ errorLog' = Append(errorLog, msg)
  /\ providerProgress'[w].error = msg
  /\ pc'[w] = "returned"
  /\ UNCHANGED <<attemptLog, attemptNo, acquireNo, insertCount>>
\* the message of a failure on a status outside 2xx
TransportMessage(xhr) ==
  IF BodyOf(xhr).errorMessage # "" THEN BodyOf(xhr).errorMessage
  ELSE HttpErrorMsg(xhr.status, xhr.statusText)
\* the phrases as the claim quotes them, in any case of the letters
QuotedPhrase(s) ==
  \E i \in DOMAIN s :
    \/ LitAt(s, i, <<"r", "a", "t", "e", " ", "l", "i", "m", "i", "t">>)
    \/ LitAt(s, i, <<"t", "o", "o", " ", "m", "a", "n", "y", " ",
                     "r", "e", "q", "u", "e", "s", "t", "s">>)
    \/ LitAt(s, i, <<"r", "p", "m">>)

\* the responses that are rate-limit signals as the claim words it
QuotedSignal ==
  [xhr \in ResponseSamples |->
     xhr.status = 429 \/ QuotedPhrase(Spell(xhr.responseText))]

\* C24 as stated: a response with a status outside 2xx makes the call pause
\* and retry exactly when its status is 429 or its text holds 'rate limit',
\* 'too many requests' or 'rpm' (in any case of the letters); any other such
\* response fails the call at once, with no further request.
C24_RateLimitSignalQuoted ==
  [][\A xhr \in ResponseSamples :
       (pc[1] = "sending" /\ ~Is2xx(xhr) /\ HandleResponse(1, xhr)) =>
         IF QuotedSignal[xhr]
         THEN Pauses(1)
         ELSE FailsWith(1, TransportMessage(xhr))]_vars

\* the text the rate-limit test reads: error.message of a JSON body that
\* has one, else the whole response text
TestedText(xhr) ==
  IF BodyOf(xhr).errorMessage # "" THEN BodyOf(xhr).errorMessage
  ELSE xhr.responseText

\* the responses that are rate-limit signals by the tested text
TestedSignal ==
  [xhr \in ResponseSamples |->
     xhr.status = 429 \/ RateLimitPattern(Spell(TestedText(xhr)))]

\* C24 amended: such a response makes the call pause and retry exactly when
\* its status is 429 or the tested text (error.message of the body, else the
\* response text) matches rate\s*limit, too\s+many\s+requests or rpm in any
\* case of the letters; any other such response fails the call at once.
C24_RateLimitSignalInTestedText ==
  [][\A xhr \in ResponseSamples :
       (pc[1] = "sending" /\ ~Is2xx(xhr) /\ HandleResponse(1, xhr)) =>
         IF TestedSignal[xhr]
         THEN Pauses(1)
         ELSE FailsWith(1, TransportMessage(xhr))]_vars

\* a call paused on a rate-limit signal, sent again and failed on a 500
\* whose error.message names no rate limit
C24_Witness ==
  /\ Serial
  /\ errorLog = <<"overloaded">>
  /\ attemptNo[1] = 2
  /\ pc[1] = "returned"
  /\ insertCount[1] = 0

\* v is a string that is not empty
NonEmptyString(v) == v.type = "string" /\ v.str # ""
\* the body of xhr has a usable string at choices[0].message.content or at
\* choices[0].text
HasUsableString(xhr) ==
  ~BodyOf(xhr).isNull
    /\ (NonEmptyString(BodyOf(xhr).content) \/ NonEmptyString(BodyOf(xhr).text))

\* C26: a 2xx response that is not JSON or has no usable non-empty string at
\* choices[0].message.content or choices[0].text fails the call, with
\* error.message when the body has one; a call that returns hands over a
\* non-empty string, which is what gets inserted.
C26_NoUsableStringFails ==
  [][\A xhr \in ResponseSamples :
       (pc[1] = "sending" /\ Is2xx(xhr) /\ HandleResponse(1, xhr)) =>
         /\ ~HasUsableString(xhr) =>
              \/ /\ BodyOf(xhr).errorMessage # ""
                 /\ FailsWith(1, BodyOf(xhr).errorMessage)
              \/ /\ BodyOf(xhr).errorMessage = ""
                 /\ \/ FailsWith(1, EmptyContentMsg)
                    \/ BodyOf(xhr).isNull /\ FailsWith(1, NoDataMsg)
         /\ \/ Fails(1)
            \/ /\ Completes(1)
               /\ NonEmptyString(inserted'[task[1]])
               /\ inserted'[task[1]] \in {BodyOf(xhr).content, BodyOf(xhr).text}]_vars

\* one unit translated from choices[0].text, the next failed on a 2xx body
\* with an error.message and no choices
C26_Witness ==
  /\ Serial
  /\ inserted[1] = Str("salut")
  /\ errorLog = <<"rate limit reached">>
  /\ failedUnits = {2}

\* ------------------------------------------------ counters of a batch
\* the sum of the done counters of the workers 1..n
RECURSIVE DoneUpTo(_)
DoneUpTo(n) == IF n = 0 THEN 0 ELSE providerProgress[n].done + DoneUpTo(n - 1)

\* C33: at every instant the translated count of the batch equals the sum
\* of the done counters of its providers and the number of onTranslated
\* calls made.
C33_CountsAgree ==
  /\ translatedCount = DoneUpTo(Len(providers))
  /\ translatedCount = callbackCount

\* a parallel batch in which each of two providers translated a unit, then
\* one failed
C33_Witness ==
  /\ ~Serial
  /\ \A w \in Workers : providerProgress[w].done >= 1
  /\ \E w \in Workers : providerProgress[w].failed = 1
  /\ translatedCount = NumUnits - 1

\* C34: a 2xx response is never followed by the retry pause, whatever its
\* body says about rate limits: the call returns its content, which is
\* inserted, or fails at once.
C34_NoPauseOn2xx ==
  [][\A xhr \in ResponseSamples :
       (pc[1] = "sending" /\ Is2xx(xhr) /\ HandleResponse(1, xhr)) =>
         /\ pc'[1] # "backoff"
         /\ rateLimitedAt'[1] = -1
         /\ \/ Completes(1) /\ ~Fails(1)
            \/ /\ ~Completes(1)
               /\ FailsWith(1, IF BodyOf(xhr).isNull THEN NoDataMsg
                               ELSE IF BodyOf(xhr).errorMessage # ""
                               THEN BodyOf(xhr).errorMessage
                               ELSE EmptyContentMsg)]_vars

\* the first request of a call got a 2xx response whose error.message names
\* a rate limit, and the call failed with that message without a pause
C34_Witness ==
  /\ Serial
  /\ errorLog = <<"rate limit reached">>
  /\ attemptNo[1] = 1
  /\ serialPos = 1
  /\ now = 0
  /\ pc[1] = "returned"

\* ------------------------------------------------ requests in flight
\* C35: parallel mode without reassignment: the request a worker has in
\* flight when the aborted flag is set is not cancelled; when it succeeds
\* its translation is inserted and counted, and only then the worker stops.
C35_InFlightDeliveredAfterAbort ==
  [][(~Serial /\ ~reassignOnFailure) =>
       \A w \in Workers :
         /\ (pc[w] = "sending" /\ ~aborted /\ aborted' /\ ~Fails(w)) =>
              pc'[w] = "sending" /\ task'[w] = task[w]
         /\ (pc[w] = "sending" /\ aborted /\ ~Acts(w)) =>
              pc'[w] = "sending" /\ task'[w] = task[w]
         /\ (pc[w] = "sending" /\ aborted /\ Respond(w, "ok")) =>
              /\ insertCount'[task[w]] = insertCount[task[w]] + 1
              /\ translatedCount' = translatedCount + 1
              /\ providerProgress'[w].done = providerProgress[w].done + 1
              /\ callbackCount' = callbackCount + 1
              /\ pc'[w] = "returned" /\ task'[w] = NoTask
              /\ queue' = queue]_vars

\* the first provider has no key, so its call fails before any response
\* arrives; the second provider's request was in flight then, succeeded and
\* was counted, and the second worker stopped with a unit left in the queue
C35_Witness ==
  /\ ~Serial /\ ~reassignOnFailure
  /\ ~providers[1].apiKey /\ providers[2].apiKey
  /\ aborted
  /\ failedUnits = {1}
  /\ insertCount[2] = 1
  /\ providerProgress[2].done = 1 /\ providerProgress[2].total = 1
  /\ translatedCount = 1
  /\ pc[2] = "returned"
  /\ queue # <<>>

\* ------------------------------------------------ attempts of a batch
\* the send calls made for the units 1..n
RECURSIVE CallsUpTo(_)
CallsUpTo(n) == IF n = 0 THEN 0 ELSE Len(attemptLog[n]) + CallsUpTo(n - 1)

\* C36: parallel mode with reassignment: no provider of the batch attempts
\* a unit twice, so a unit is attempted at most N times by N providers and
\* the batch makes at most (number of units + N) send calls.
C36_OneAttemptPerProvider ==
  (~Serial /\ reassignOnFailure) =>
    /\ \A u \in Units :
         /\ \A i, j \in DOMAIN attemptLog[u] :
              attemptLog[u][i] = attemptLog[u][j] => i = j
         /\ Len(attemptLog[u]) <= Len(providers)
    /\ CallsUpTo(NumUnits) <= NumUnits + Len(providers)

\* every unit was attempted, the first by both providers: the first
\* provider failed on it and retired, the second translated it last
C36_Witness ==
  /\ ~Serial /\ reassignOnFailure
  /\ Done
  /\ attemptLog[1] = <<1, 2>>
  /\ CallsUpTo(NumUnits) = NumUnits + 1
  /\ AllTranslated

\* ------------------------------------------------ the resolved list
\* no entry of the raw list has an id, a name and an apiBaseUrl
NoValidEntry ==
  \A i \in DOMAIN prefs.translationProviders :
    LET e == prefs.translationProviders[i]
    IN Trim(e.id) = "" \/ e.name = "" \/ e.apiBaseUrl = ""

\* C37: whatever the registered providers, the parallel flag and the
\* selections are, the list getParallelProviders resolves is not empty; it
\* is the legacy provider alone when no raw entry is valid, it has one
\* element when parallel mode is off, and it is the list the batch works
\* with.
C37_ResolvedListNeverEmpty ==
  LET ps == getParallelProviders(prefs)
  IN /\ Len(ps) >= 1
     /\ NoValidEntry => ps = <<LegacyProvider>>
     /\ ~prefs.translationParallelEnabled => Len(ps) = 1
     /\ Resolved => providers = ps

\* parallel mode on, a selection list, two raw entries of which none is
\* valid: the batch works with the legacy provider
C37_Witness ==
  /\ Resolved
  /\ prefs.translationParallelEnabled
  /\ prefs.translationParallelProviders = <<"p2", "p1">>
  /\ Len(prefs.translationProviders) = 2
  /\ NoValidEntry
  /\ providers = <<LegacyProvider>>
  /\ Len(pc) = 1

\* ------------------------------------------------ termination
\* C32: when every send call returns in the end, a batch that started ends
\* with a result, in serial mode and in parallel mode with and without
\* reassignment.
C32_BatchTerminates == <>Done

\* a parallel batch with reassignment that waited for a sleep, had a
\* failure and ended
C32_Witness ==
  /\ Done
  /\ ~Serial /\ reassignOnFailure
  /\ errorLog # <<>>
  /\ now > MaxNow

\* ------------------------------------------------ the progress log
\* the larger of two numbers
Max(a, b) == IF a >= b THEN a ELSE b

\* C31: after any appends the log holds at most 200 messages, and they are
\* the last ones appended, in the order of their appends.
C31_LogHoldsLastAppended ==
  /\ Len(logs) <= 200
  /\ logs = SubSeq(appended, Max(1, Len(appended) - 199), Len(appended))

\* 202 messages were appended: the log holds the messages 3 to 202
C31_Witness ==
  /\ Len(appended) = 202
  /\ Len(logs) = 200
  /\ logs[1] = 3
  /\ logs[200] = 202

\* ------------------------------------------------ repeated runs
\* the translation blocks of d made for the paragraph k
BlocksOf(d, k) == {i \in DOMAIN d : d[i].cls /\ d[i].id = k}
\* the paragraphs of d that have text
TextParagraphs(d) == {d[i].id : i \in {j \in DOMAIN d : d[j].tag = "p" /\ d[j].text}}

\* C38: a paragraph that has a translation block is not a unit of a later
\* run, and a run after a run that translated all its units selects
\* nothing, so it sends no request, and leaves the document as it is; no
\* paragraph ever has two blocks.
C38_TranslatedNotSelectedAgain ==
  [][runs' = runs + 1 =>
       /\ \A k \in 1..Len(doc) : BlocksOf(doc, k) # {} => k \notin lastTasks'
       /\ (runs >= 1 /\ lastInserted = lastTasks) =>
            lastTasks' = {} /\ lastInserted' = {} /\ doc' = doc
       /\ \A k \in 1..Len(doc') : Cardinality(BlocksOf(doc', k)) <= 1
       /\ \A k \in lastInserted' : Cardinality(BlocksOf(doc', k)) = 1]_vars

\* a second run after a first run that translated its two units: nothing
\* selected, one block for each paragraph
C38_Witness ==
  /\ runs = 2
  /\ lastTasks = {}
  /\ Cardinality(TextParagraphs(doc)) = 2
  /\ \A k \in TextParagraphs(doc) : Cardinality(BlocksOf(doc, k)) = 1

\* ------------------------------------------------ the menus
\* C39: after window events that end with a load, the four item menus and
\* the tools menu are registered.
C39_MenusPresentAfterLoad ==
  (events # <<>> /\ events[Len(events)] = "load") =>
    \A i \in ItemMenuIds \cup ToolsMenuIds : \E m \in menus : m.id = i


====
